---------------------------- MODULE Spec2Model ----------------------------
(***************************************************************************)
(* Model of extractify's text post-processing: the positional table parser *)
(* (src/lib/postProcessor.ts, geometric version) and the keyword-slice     *)
(* parser (src/lib/postProcessor.ts, text version).                        *)
(*                                                                         *)
(* Representation.  A JavaScript string is a sequence of one-character     *)
(* strings (<<"b", " ", "c">> is "b c").  A text item is a record          *)
(* [str, x, y] with x = transform[4] and y = transform[5]; object identity *)
(* of an item (item === keyLocation.item) is its index in `items`.         *)
(* Coordinates are integers; a row band bound may be a half-integer (a     *)
(* midpoint), so RowBoundary.minY and .maxY are stored doubled in the      *)
(* fields minY2 and maxY2 (minY2 = 2 * minY).                              *)
(***************************************************************************)
EXTENDS Integers, Sequences, FiniteSets, TLC

VARIABLES
    pc,        \* position of the running call
    items,     \* TextItem[] given to the positional parser
    keys,      \* the catalog given to the parser
    keyRows,   \* parseTableByRows: RowBoundary[]
    keyLocs,   \* parseTableByRows step 4: the KeyLocation of each row
    rowVals,   \* parseTableByRows step 4: sortedValues of each row
    results,   \* Record<string, string>: set of <<key, value>> pairs
    lines,     \* the array of output lines before join('\n')
    output,    \* the returned string
    rawText,   \* parseWithKeywords: the rawText argument
    text,      \* parseWithKeywords: the pre-cleaned text
    foundKeys, \* parseWithKeywords: uniqueFoundKeys
    label,     \* findKeyInItems: the key argument
    found,     \* findKeyInItems: the returned KeyLocation
    values,    \* sortValuesInReadingOrder: the values argument
    sorted,    \* sortValuesInReadingOrder: the returned array
    templateName, \* postProcessText: the templateName argument
    absent,    \* the items or rawText argument is undefined (or null)
    sectionLastIndex, \* SECTION_IDENTIFIERS.lastIndex, which outlives the calls
    calls,     \* the calls that have returned: arguments and result, in order
    entry,     \* the function the running call entered
    request,   \* extraction worker: event.data of the request message
    pass1,     \* extraction worker: the state of each promise of textExtractionPromises
    ocrQueue,  \* extraction worker: ocrQueue, as indexes into request.templates
    workerResults, \* extraction worker: the results object
    ocrIndex,  \* extraction worker: i of the pass-2 loop
    inFlight,  \* extraction worker: the templates whose extractWithOCR is running
    ocrDone,   \* extraction worker: the templates whose extractWithOCR has settled, in order
    posted,    \* extraction worker: the messages posted to the main thread, in order
    worker,    \* extractor: the module-level worker reference (0 is null)
    workers,   \* extractor: every Worker created so far
    callbacks, \* extractor: the callbacks invoked so far, in order
    templates, \* template store: templates
    selectedTemplateId, \* template store: selectedTemplateId
    lastOp,    \* the store action or viewer event handled last, with its arguments
    drawingState, \* PdfViewer: drawingState
    pdfDocument   \* PdfViewer: a document is loaded

\* what a call of a parser neither reads nor writes
callVars == <<templateName, sectionLastIndex, calls, entry>>

vars == <<pc, items, keys, keyRows, keyLocs, rowVals, results, lines, output,
          rawText, text, foundKeys, label, found, values, sorted,
          templateName, absent, sectionLastIndex, calls, entry,
          request, pass1, ocrQueue, workerResults, ocrIndex, inFlight, ocrDone,
          posted, worker, workers, callbacks, templates, selectedTemplateId,
          lastOp, drawingState, pdfDocument>>

\* the state of the extraction worker's message handler
workerVars == <<request, pass1, ocrQueue, workerResults, ocrIndex, inFlight,
                ocrDone, posted>>

\* the state of the extractor module
extractorVars == <<worker, workers, callbacks>>

\* the state of the template store
storeVars == <<templates, selectedTemplateId>>

\* the local state of PdfViewer
viewerVars == <<drawingState, pdfDocument>>

\* what the text post-processing neither reads nor writes
appVars == <<workerVars, extractorVars, storeVars, viewerVars, lastOp>>

\* null, for a reference that holds a string otherwise
Null == "null"

\* the initial DrawingState of useState (PdfViewer lines 48-53);
\* currentRect is <<>> for null and <<rect>> for a BoundingBox
NoDrawing == [isDrawing |-> FALSE, startX |-> 0, startY |-> 0, currentRect |-> <<>>]

\* no request received, no worker created, the initial store and viewer
AppIdle ==
    /\ request = [file |-> FALSE, hasTemplates |-> FALSE, templates |-> <<>>]
    /\ pass1 = <<>> /\ ocrQueue = <<>> /\ workerResults = <<>>
    /\ ocrIndex = 0 /\ inFlight = {} /\ ocrDone = <<>> /\ posted = <<>>
    /\ worker = 0 /\ workers = <<>> /\ callbacks = <<>>
    /\ templates = <<>> /\ selectedTemplateId = Null
    /\ lastOp = [op |-> "none", id |-> Null, arg |-> Null]
    /\ drawingState = NoDrawing /\ pdfDocument = FALSE

---------------------------------------------------------------------------
(* Program constants *)

ROW_TOLERANCE == 15

KEY_EXCLUSION_TOLERANCE == 8

MIN_VALUE_OFFSET == 20

KEY_CHAR_WIDTH == 8

SAME_LINE_TOLERANCE == 3

SPACED_HEADER_MIN_REPEAT == 5

---------------------------------------------------------------------------
(* JavaScript string operations, on sequences of characters *)

\* the characters \s matches, among those the model uses
WS == {" ", "\n"}

UPPER == {"A", "B"}

Abs(n) == IF n < 0 THEN -n ELSE n

Min2(a, b) == IF a <= b THEN a ELSE b

Max2(a, b) == IF a >= b THEN a ELSE b

\* s.indexOf(t): 0-based index of the first occurrence, -1 when absent
IndexOf(s, t) ==
    LET hits == {i \in 0..(Len(s) - Len(t)) : SubSeq(s, i + 1, i + Len(t)) = t}
    IN  IF hits = {} THEN -1 ELSE CHOOSE i \in hits : \A j \in hits : i <= j

\* s.includes(t)
Includes(s, t) == IndexOf(s, t) >= 0

\* s.replace(/\s+/g, '')
StripWs(s) == SelectSeq(s, LAMBDA c : c \notin WS)

\* s.trim()
Trim(s) ==
    LET keep == {i \in 1..Len(s) : s[i] \notin WS}
    IN  IF keep = {} THEN <<>>
        ELSE SubSeq(s, CHOOSE i \in keep : \A j \in keep : i <= j,
                       CHOOSE i \in keep : \A j \in keep : i >= j)

RECURSIVE SplitFrom(_, _, _)
SplitFrom(s, i, cur) ==
    IF i > Len(s) THEN <<cur>>
    ELSE IF s[i] \in WS
         THEN LET rest == {j \in (i + 1)..Len(s) : s[j] \notin WS}
                  nxt  == IF rest = {} THEN Len(s) + 1
                          ELSE CHOOSE j \in rest : \A k \in rest : j <= k
              IN  <<cur>> \o SplitFrom(s, nxt, <<>>)
         ELSE SplitFrom(s, i + 1, Append(cur, s[i]))

\* s.split(/\s+/)
SplitWs(s) == SplitFrom(s, 1, <<>>)

\* s.replace(/\s+/g, ' '): every maximal whitespace run becomes one space
RECURSIVE CollapseWs(_)
CollapseWs(s) ==
    IF s = <<>> THEN <<>>
    ELSE IF s[1] \in WS
         THEN LET rest == {j \in 2..Len(s) : s[j] \notin WS}
                  nxt  == IF rest = {} THEN Len(s) + 1
                          ELSE CHOOSE j \in rest : \A k \in rest : j <= k
              IN  <<" ">> \o CollapseWs(SubSeq(s, nxt, Len(s)))
         ELSE <<s[1]>> \o CollapseWs(Tail(s))

\* strs.join(sep)
RECURSIVE Join(_, _)
Join(strs, sep) ==
    IF strs = <<>> THEN <<>>
    ELSE IF Len(strs) = 1 THEN strs[1]
    ELSE strs[1] \o sep \o Join(Tail(strs), sep)

\* arr.find(pred), given the indices of the elements satisfying pred: the
\* first of them, 0 when there is none
FindFirst(hits) ==
    IF hits = {} THEN 0 ELSE CHOOSE i \in hits : \A j \in hits : i <= j

---------------------------------------------------------------------------
(* findKeyInItems *)

\* null
NoLocation == [item |-> 0, y |-> 0, x |-> 0]

LocationOf(its, i) ==
    IF i = 0 THEN NoLocation ELSE [item |-> i, y |-> its[i].y, x |-> its[i].x]

\* Strategy 1 predicate: item.str.includes(key)
ExactMatch(item, key) == Includes(item.str, key)

\* Strategy 2 predicate: both sides with whitespace stripped
NormalizedMatch(item, key) == Includes(StripWs(item.str), StripWs(key))

\* Strategy 3 predicate and the component test of extractRowValues
IsKeyComponent(str, firstKeyword) ==
    Trim(str) = firstKeyword \/ Includes(Trim(str), firstKeyword)

\* strategy 2 tried before strategy 1
findKeyInItems_SwappedStrategies(its, key) ==
    LET s1 == FindFirst({i \in 1..Len(its) : ExactMatch(its[i], key)})
        s2 == FindFirst({i \in 1..Len(its) : NormalizedMatch(its[i], key)})
        keyWords == SplitWs(key)
        s3 == FindFirst({i \in 1..Len(its) : IsKeyComponent(its[i].str, keyWords[1])})
    IN  IF s2 # 0 THEN LocationOf(its, s2)
        ELSE IF s1 # 0 THEN LocationOf(its, s1)
        ELSE IF Len(keyWords) > 1 /\ s3 # 0 THEN LocationOf(its, s3)
        ELSE NoLocation

findKeyInItems(its, key) ==
    LET s1 == FindFirst({i \in 1..Len(its) : ExactMatch(its[i], key)})
        s2 == FindFirst({i \in 1..Len(its) : NormalizedMatch(its[i], key)})
        keyWords == SplitWs(key)
        s3 == FindFirst({i \in 1..Len(its) : IsKeyComponent(its[i].str, keyWords[1])})
    IN  IF s1 # 0 THEN LocationOf(its, s1)
        ELSE IF s2 # 0 THEN LocationOf(its, s2)
        ELSE IF Len(keyWords) > 1 /\ s3 # 0 THEN LocationOf(its, s3)
        ELSE NoLocation

---------------------------------------------------------------------------
(* Array.prototype.sort *)

\* the elements of s
Elements(s) == {s[i] : i \in 1..Len(s)}

\* A comparator is given as the function cmp it computes on the elements.
\* The elements of s, each behind those that compare less than it and those
\* that compare equal to it and precede it in s
SortedByRank(s, cmp) ==
    LET n == Len(s)
        Rank(i) == 1 + Cardinality({j \in 1..n :
                        \/ cmp[s[j], s[i]] < 0
                        \/ cmp[s[j], s[i]] = 0 /\ j < i})
    IN  [r \in 1..n |-> s[CHOOSE i \in 1..n : Rank(i) = r]]

\* the stable sort of s by cmp (what every engine returns for a consistent
\* comparator); s is evaluated once
StableSort(s, cmp) == CHOOSE r \in {SortedByRank(t, cmp) : t \in {s}} : TRUE

\* ECMAScript's "consistent comparator" for the elements of s: cmp divides
\* them into equivalence classes that are totally ordered
ConsistentComparator(s, cmp) ==
    LET E == Elements(s)
    IN  /\ \A a \in E : cmp[a, a] = 0
        /\ \A a, b \in E : /\ cmp[a, b] = 0 => cmp[b, a] = 0
                           /\ cmp[a, b] < 0 => cmp[b, a] > 0
                           /\ cmp[a, b] > 0 => cmp[b, a] < 0
        /\ \A a, b, c \in E :
              /\ (cmp[a, b] = 0 /\ cmp[b, c] = 0) => cmp[a, c] = 0
              /\ (cmp[a, b] < 0 /\ cmp[b, c] < 0) => cmp[a, c] < 0
              /\ (cmp[a, b] > 0 /\ cmp[b, c] > 0) => cmp[a, c] > 0
              /\ (cmp[a, b] = 0 /\ cmp[b, c] < 0) => cmp[a, c] < 0
              /\ (cmp[a, b] < 0 /\ cmp[b, c] = 0) => cmp[a, c] < 0

\* every reordering of s
Reorderings(s) ==
    {[i \in 1..Len(s) |-> s[p[i]]] : p \in Permutations(1..Len(s))}

\* s.sort(cmp): the stable sort when cmp is consistent; otherwise the order
\* is implementation-defined (ECMAScript 23.1.3.30), any reordering
SortOutcomes(s, cmp) ==
    UNION {IF ConsistentComparator(t, cmp) THEN {SortedByRank(t, cmp)} ELSE Reorderings(t)
           : t \in {s}}

---------------------------------------------------------------------------
(* calculateRowBoundaries, and the row sort of parseTableByRows *)

\* keyRows.sort((a, b) => b.y - a.y)
RowCompare(a, b) == b.y - a.y

SortRowsDesc(rows) ==
    StableSort(rows, [a, b \in Elements(rows) |-> RowCompare(a, b)])

\* the midpoints without the tolerance cap
calculateRowBoundaries_NoCap(rows) ==
    [i \in 1..Len(rows) |->
        [rows[i] EXCEPT
            !.maxY2 = IF i > 1 THEN rows[i].y + rows[i - 1].y
                      ELSE 2 * (rows[i].y + ROW_TOLERANCE),
            !.minY2 = IF i < Len(rows) THEN rows[i].y + rows[i + 1].y
                      ELSE 2 * (rows[i].y - ROW_TOLERANCE)]]

\* the tolerance band around each row, whatever its neighbours
calculateRowBoundaries_OwnTolerance(rows) ==
    [i \in 1..Len(rows) |->
        [rows[i] EXCEPT
            !.maxY2 = 2 * (rows[i].y + ROW_TOLERANCE),
            !.minY2 = 2 * (rows[i].y - ROW_TOLERANCE)]]

\* the bounds are doubled: maxY2 = 2 * maxY, minY2 = 2 * minY
calculateRowBoundaries(rows) ==
    [i \in 1..Len(rows) |->
        [rows[i] EXCEPT
            !.maxY2 = IF i > 1
                      THEN Min2(rows[i].y + rows[i - 1].y,
                                2 * (rows[i].y + ROW_TOLERANCE))
                      ELSE 2 * (rows[i].y + ROW_TOLERANCE),
            !.minY2 = IF i < Len(rows)
                      THEN Max2(rows[i].y + rows[i + 1].y,
                                2 * (rows[i].y - ROW_TOLERANCE))
                      ELSE 2 * (rows[i].y - ROW_TOLERANCE)]]

---------------------------------------------------------------------------
(* extractRowValues *)

\* without the skip of key components
IsRowValue_NoComponentSkip(its, i, row, keyLocation) ==
    LET keyWidth == Len(StripWs(row.key)) * KEY_CHAR_WIDTH
    IN  /\ i # keyLocation.item
        /\ 2 * its[i].y <= row.maxY2 /\ 2 * its[i].y >= row.minY2
        /\ its[i].x > keyLocation.x + keyWidth + MIN_VALUE_OFFSET

\* with >= for > in isRightOfKey
IsRowValue_AtOffset(its, i, row, keyLocation) ==
    LET keyWidth     == Len(StripWs(row.key)) * KEY_CHAR_WIDTH
        firstKeyWord == SplitWs(row.key)[1]
    IN  /\ i # keyLocation.item
        /\ ~(/\ IsKeyComponent(its[i].str, firstKeyWord)
             /\ Abs(its[i].y - row.y) <= KEY_EXCLUSION_TOLERANCE)
        /\ 2 * its[i].y <= row.maxY2 /\ 2 * its[i].y >= row.minY2
        /\ its[i].x >= keyLocation.x + keyWidth + MIN_VALUE_OFFSET

\* the item of index i is pushed to rowValues
IsRowValue(its, i, row, keyLocation) ==
    LET keyWidth     == Len(StripWs(row.key)) * KEY_CHAR_WIDTH
        firstKeyWord == SplitWs(row.key)[1]
        isInRowBounds == 2 * its[i].y <= row.maxY2 /\ 2 * its[i].y >= row.minY2
        isRightOfKey  == its[i].x > keyLocation.x + keyWidth + MIN_VALUE_OFFSET
    IN  /\ i # keyLocation.item
        /\ ~(/\ IsKeyComponent(its[i].str, firstKeyWord)
             /\ Abs(its[i].y - row.y) <= KEY_EXCLUSION_TOLERANCE)
        /\ isInRowBounds
        /\ isRightOfKey

\* an ExtractedValue; src is the index of the item it was made from
\* (bookkeeping of the model, read by no operation)
ValueOf(its, i) == [text |-> its[i].str, x |-> its[i].x, y |-> its[i].y, src |-> i]

RECURSIVE CollectFrom(_, _, _, _)
CollectFrom(its, i, row, keyLocation) ==
    IF i > Len(its) THEN <<>>
    ELSE (IF IsRowValue(its, i, row, keyLocation) THEN <<ValueOf(its, i)>> ELSE <<>>)
         \o CollectFrom(its, i + 1, row, keyLocation)

extractRowValues(its, row, keyLocation) == CollectFrom(its, 1, row, keyLocation)

---------------------------------------------------------------------------
(* sortValuesInReadingOrder *)

\* without the left-to-right order inside a line
ReadingCompare_YOnly(a, b) == b.y - a.y

\* without the top-to-bottom order of the lines
ReadingCompare_XOnly(a, b) == a.x - b.x

ReadingCompare(a, b) ==
    IF Abs(a.y - b.y) > SAME_LINE_TOLERANCE THEN b.y - a.y ELSE a.x - b.x

\* the arrays values.sort(...) may return
sortValuesInReadingOrder(vals) ==
    SortOutcomes(vals, [a, b \in Elements(vals) |-> ReadingCompare(a, b)])

---------------------------------------------------------------------------
(* parseTableByRows *)

\* Step 1: one RowBoundary per located key, in catalog order
RECURSIVE LocateRows(_, _)
LocateRows(its, ks) ==
    IF ks = <<>> THEN <<>>
    ELSE LET keyLocation == findKeyInItems(its, ks[1])
         IN  (IF keyLocation.item # 0
              THEN <<[key |-> ks[1], y |-> keyLocation.y, minY2 |-> 0, maxY2 |-> 0]>>
              ELSE <<>>)
             \o LocateRows(its, Tail(ks))

\* joined without the separator
RawConcatenation_NoSeparator(its) == Join([i \in 1..Len(its) |-> its[i].str], <<>>)

\* items.map(item => item.str).join(' ')
RawConcatenation(its) == Join([i \in 1..Len(its) |-> its[i].str], <<" ">>)

\* joined without the trim
ValueText_Untrimmed(vals) == Join([i \in 1..Len(vals) |-> vals[i].text], <<" ">>)

\* sortedValues.map(v => v.text).join(' ').trim()
ValueText(vals) == Trim(Join([i \in 1..Len(vals) |-> vals[i].text], <<" ">>))

\* Step 4: results after the loop over keyRows; a later row with the same
\* key overwrites an earlier one
ResultsOf(rows, rvals) ==
    LET filled == {i \in 1..Len(rows) : ValueText(rvals[i]) # <<>>}
    IN  [k \in {rows[i].key : i \in filled} |->
            ValueText(rvals[CHOOSE i \in filled :
                              /\ rows[i].key = k
                              /\ \A j \in filled : rows[j].key = k => j <= i])]

\* results[key] is truthy
HasValue(res, key) == key \in DOMAIN res /\ res[key] # <<>>

RECURSIVE LinesAlong(_, _)
LinesAlong(order, res) ==
    IF order = <<>> THEN <<>>
    ELSE (IF HasValue(res, order[1])
          THEN <<[key |-> order[1], value |-> res[order[1]]]>> ELSE <<>>)
         \o LinesAlong(Tail(order), res)

\* the lines in the order of keyRows (top of the page first), not of keys
FormatLines_RowOrder(ks, res) ==
    LinesAlong([i \in 1..Len(keyRows) |-> keyRows[i].key], res)

\* Step 5: keys.map(...).filter(Boolean), each line kept as [key, value]
RECURSIVE FormatLines(_, _)
FormatLines(ks, res) ==
    IF ks = <<>> THEN <<>>
    ELSE (IF HasValue(res, ks[1])
          THEN <<[key |-> ks[1], value |-> res[ks[1]]]>> ELSE <<>>)
         \o FormatLines(Tail(ks), res)

\* `${key}: ${value}` lines joined by '\n'
RenderLines(ls) ==
    Join([i \in 1..Len(ls) |-> ls[i].key \o <<":", " ">> \o ls[i].value], <<"\n">>)

NoResults == [k \in {} |-> <<>>]

---------------------------------------------------------------------------
(* Inputs of the model *)

MaxItems == 4

\* STANDARD_KEYS, abbreviated: a one-word key and a two-word key
TableCatalog == << <<"a">>, <<"b", " ", "c">> >>

Frag(str, x, y) == [str |-> str, x |-> x, y |-> y]

\* key fragments in a left column; value fragments right of it, on a key's
\* line, between two lines, at and beyond the key exclusion tolerance
Fragments ==
    { Frag(<<"a">>, 0, 100), Frag(<<"a">>, 0, 80),
      Frag(<<"b", " ", "c">>, 0, 100), Frag(<<"b", " ", "c">>, 0, 80),
      Frag(<<"v">>, 40, 100), Frag(<<"w">>, 40, 90), Frag(<<"v">>, 40, 80),
      Frag(<<"v">>, 28, 100),
      Frag(<<"b">>, 40, 72), Frag(<<"b">>, 40, 71) }

---------------------------------------------------------------------------
(* Actions of parseTableByRows *)

Idle ==
    /\ keyRows = <<>> /\ keyLocs = <<>> /\ rowVals = <<>>
    /\ results = NoResults /\ lines = <<>> /\ output = <<>>
    /\ text = <<>> /\ foundKeys = <<>>
    /\ label = <<>> /\ found = NoLocation /\ values = <<>> /\ sorted = <<>>
    /\ templateName = <<>> /\ absent = FALSE /\ sectionLastIndex = 0 /\ calls = <<>>
    /\ AppIdle

InitTable ==
    /\ pc = "table_start"
    /\ \E n \in 0..MaxItems : items \in [1..n -> Fragments]
    /\ keys = TableCatalog
    /\ rawText = <<>>
    /\ entry = "parseTableByRows"
    /\ Idle

\* lines 238-259: the empty-input return, step 1 and the no-key return
LocateKeys ==
    /\ pc = "table_start"
    /\ IF absent \/ items = <<>>
       THEN /\ output' = <<>>
            /\ pc' = "table_done"
            /\ UNCHANGED keyRows
       ELSE LET rows == LocateRows(items, keys)
            IN  IF rows = <<>>
                THEN /\ output' = RawConcatenation(items)
                     /\ pc' = "table_done"
                     /\ UNCHANGED keyRows
                ELSE /\ keyRows' = rows
                     /\ pc' = "located"
                     /\ UNCHANGED output
    /\ UNCHANGED <<items, keys, keyLocs, rowVals, results, lines, rawText,
                   text, foundKeys, label, found, values, sorted>>
    /\ UNCHANGED <<absent, callVars, appVars>>

\* line 262
SortRows ==
    /\ pc = "located"
    /\ keyRows' = SortRowsDesc(keyRows)
    /\ pc' = "sorted"
    /\ UNCHANGED <<items, keys, keyLocs, rowVals, results, lines, output,
                   rawText, text, foundKeys, label, found, values, sorted>>
    /\ UNCHANGED <<absent, callVars, appVars>>

\* line 265
CalcBoundaries ==
    /\ pc = "sorted"
    /\ keyRows' = calculateRowBoundaries(keyRows)
    /\ pc' = "bounded"
    /\ UNCHANGED <<items, keys, keyLocs, rowVals, results, lines, output,
                   rawText, text, foundKeys, label, found, values, sorted>>
    /\ UNCHANGED <<absent, callVars, appVars>>

\* lines 271-275 for one row: the arrays sortedValues may be
SortedRowValues(its, row) ==
    UNION {IF keyLocation.item = 0 THEN {<<>>}
           ELSE sortValuesInReadingOrder(extractRowValues(its, row, keyLocation))
           : keyLocation \in {findKeyInItems(its, row.key)}}

\* the sortedValues of the first n rows, row by row
RECURSIVE SortedValuesOfRows(_, _, _)
SortedValuesOfRows(its, rows, n) ==
    IF n = 0 THEN {<<>>}
    ELSE {Append(before, vals) : before \in SortedValuesOfRows(its, rows, n - 1),
                                 vals \in SortedRowValues(its, rows[n])}

\* the array sorted in place is the caller's items, as in the items.sort of
\* parseLegacyGeometricLayout
ItemsSortedInPlace(its) ==
    StableSort(its, [a, b \in Elements(its) |-> ReadingCompare(a, b)])

\* items after the loop: the array that line 217 sorts in place is the
\* rowValues array extractRowValues made (line 175) of objects it made
\* (lines 196-200), so items keeps its elements and their order
ItemsAfterValueSort(its) == its

\* lines 268-285: the loop over keyRows
ExtractValues ==
    /\ pc = "bounded"
    /\ keyLocs' = [i \in 1..Len(keyRows) |-> findKeyInItems(items, keyRows[i].key)]
    /\ rowVals' \in SortedValuesOfRows(items, keyRows, Len(keyRows))
    /\ results' = ResultsOf(keyRows, rowVals')
    /\ pc' = "extracted"
    /\ items' = ItemsAfterValueSort(items)
    /\ UNCHANGED <<keys, keyRows, lines, output, rawText, text,
                   foundKeys, label, found, values, sorted>>
    /\ UNCHANGED <<absent, callVars, appVars>>

\* lines 288-294
FormatTable ==
    /\ pc = "extracted"
    /\ lines' = FormatLines(keys, results)
    /\ output' = RenderLines(lines')
    /\ pc' = "table_done"
    /\ UNCHANGED <<items, keys, keyRows, keyLocs, rowVals, results, rawText,
                   text, foundKeys, label, found, values, sorted>>
    /\ UNCHANGED <<absent, callVars, appVars>>

---------------------------------------------------------------------------
(* preCleanText and parseWithKeywords *)

\* the number of consecutive "[A-Z]\s" pairs of s that start at index i
RECURSIVE HeaderPairs(_, _)
HeaderPairs(s, i) ==
    IF i + 1 <= Len(s) /\ s[i] \in UPPER /\ s[i + 1] \in WS
    THEN 1 + HeaderPairs(s, i + 2) ELSE 0

\* the length of the match of /(?:[A-Z]\s){5,}[A-Z]/ at index i, 0 when none:
\* all n pairs and the capital behind them, else (backtracking) the first
\* n - 1 pairs and the capital of the n-th
HeaderMatchLength(s, i) ==
    LET n == HeaderPairs(s, i)
    IN  IF n >= SPACED_HEADER_MIN_REPEAT /\ i + 2 * n <= Len(s) /\ s[i + 2 * n] \in UPPER
        THEN 2 * n + 1
        ELSE IF n - 1 >= SPACED_HEADER_MIN_REPEAT THEN 2 * n - 1
        ELSE 0

\* text.replace(spacedHeaderRegex, '')
RECURSIVE RemoveSpacedHeaders(_, _)
RemoveSpacedHeaders(s, i) ==
    IF i > Len(s) THEN <<>>
    ELSE LET m == HeaderMatchLength(s, i)
         IN  IF m > 0 THEN RemoveSpacedHeaders(s, i + m)
             ELSE <<s[i]>> \o RemoveSpacedHeaders(s, i + 1)

\* s.replace(/\s{2,}/g, ' '): a run of two or more whitespace characters
\* becomes one space, a single whitespace character stays as it is
RECURSIVE ConsolidateSpaces(_)
ConsolidateSpaces(s) ==
    IF s = <<>> THEN <<>>
    ELSE IF s[1] \in WS /\ Len(s) >= 2 /\ s[2] \in WS
         THEN LET rest == {j \in 2..Len(s) : s[j] \notin WS}
                  nxt  == IF rest = {} THEN Len(s) + 1
                          ELSE CHOOSE j \in rest : \A k \in rest : j <= k
              IN  <<" ">> \o ConsolidateSpaces(SubSeq(s, nxt, Len(s)))
         ELSE <<s[1]>> \o ConsolidateSpaces(Tail(s))

\* a cleaner that marks the start of its result
preCleanText_Marked(s) == <<":">> \o Trim(ConsolidateSpaces(RemoveSpacedHeaders(s, 1)))

preCleanText(s) == Trim(ConsolidateSpaces(RemoveSpacedHeaders(s, 1)))

\* What new RegExp(key, 'g') matches, for a key made of ordinary characters
\* and balanced parentheses: "(" and ")" only delimit a capture group, so the
\* pattern matches the key's other characters in a row
RegExpLiteral(key) == SelectSeq(key, LAMBDA c : c \notin {"(", ")"})

\* the match.index of the successive regex.exec(text) calls from lastIndex
RECURSIVE ExecAll(_, _, _)
ExecAll(pattern, s, lastIndex) ==
    LET hits == {i \in lastIndex..(Len(s) - Len(pattern)) :
                    SubSeq(s, i + 1, i + Len(pattern)) = pattern}
    IN  IF hits = {} THEN <<>>
        ELSE LET i == CHOOSE h \in hits : \A j \in hits : h <= j
             IN  <<i>> \o ExecAll(pattern, s, i + Len(pattern))

\* foundKeys: every match of every key, key by key in catalog order
RECURSIVE FoundKeys(_, _)
FoundKeys(ks, s) ==
    IF ks = <<>> THEN <<>>
    ELSE LET idx == ExecAll(RegExpLiteral(ks[1]), s, 0)
         IN  [i \in 1..Len(idx) |-> [key |-> ks[1], index |-> idx[i]]]
             \o FoundKeys(Tail(ks), s)

\* foundKeys.filter((v, i, a) => a.findIndex(t => t.key === v.key) === i)
RECURSIVE UniqueFrom(_, _)
UniqueFrom(fk, i) ==
    IF i > Len(fk) THEN <<>>
    ELSE (IF \A j \in 1..(i - 1) : fk[j].key # fk[i].key THEN <<fk[i]>> ELSE <<>>)
         \o UniqueFrom(fk, i + 1)

UniqueFoundKeys(fk) == UniqueFrom(fk, 1)

\* uniqueFoundKeys.sort((a, b) => a.index - b.index)
IndexCompare(a, b) == a.index - b.index

\* value.replace(key, ''): the first literal occurrence of key removed
RemoveFirst(s, key) ==
    LET i == IndexOf(s, key)
    IN  IF i < 0 THEN s
        ELSE SubSeq(s, 1, i) \o SubSeq(s, i + Len(key) + 1, Len(s))

\* lines 60-70: the value of the i-th found key
SliceValue(s, fk, i) ==
    LET startIndex == fk[i].index
        endIndex   == IF i < Len(fk) THEN fk[i + 1].index ELSE Len(s)
        value      == Trim(RemoveFirst(SubSeq(s, startIndex + 1, endIndex), fk[i].key))
    IN  IF value # <<>> /\ value[1] = ":" THEN Trim(Tail(value)) ELSE value

\* results after the slicing loop
SliceResults(s, fk) ==
    [k \in {fk[i].key : i \in 1..Len(fk)} |->
        SliceValue(s, fk, CHOOSE i \in 1..Len(fk) : fk[i].key = k)]

\* lines 76-78: the lines of the output, in the order of primaryKeys
RECURSIVE FormatKeywordLines(_, _)
FormatKeywordLines(ks, res) ==
    IF ks = <<>> THEN <<>>
    ELSE (IF HasValue(res, ks[1])
          THEN <<[key |-> ks[1], value |-> Trim(CollapseWs(res[ks[1]]))]>> ELSE <<>>)
         \o FormatKeywordLines(Tail(ks), res)

MaxTextLen == 4

\* overviewKeys, abbreviated: two plain keys and a key with parentheses
KeywordCatalog == << <<"a">>, <<"b">>, <<"c", "(", "g", ")">> >>

KeywordChars == {"a", "b", "c", "g", " ", ":"}

\* further texts: the parenthesised key written out, spaced-out capital
\* headers, a line break, a double space
LongTexts ==
    { <<"c", "(", "g", ")", " ", "g">>,
      <<"a", "g", "c", "(", "g", ")", ":", "g">>,
      <<"A", " ", "B", " ", "A", " ", "B", " ", "A", " ", "B">>,
      <<"A", " ", "B", " ", "A", " ", "B", " ", "A", " ", "B", " ", "a", ":", "g">>,
      <<"g", " ", "A", " ", "A", " ", "A", " ", "A", " ", "A", " ", "A", " ">>,
      <<"A", " ", "A", " ", "A", " ", "A", " ", "A", " ", "a", "g">>,
      <<"a", " ", " ", "g", "\n", "b", ":", "g">> }

InitKeywords ==
    /\ pc = "kw_start"
    /\ \/ \E n \in 0..MaxTextLen : rawText \in [1..n -> KeywordChars]
       \/ rawText \in LongTexts
    /\ keys = KeywordCatalog
    /\ items = <<>>
    /\ entry = "parseWithKeywords"
    /\ Idle

\* lines 31-52: pre-cleaning, the search for the keys, the no-key return
FindKeywords ==
    /\ pc = "kw_start"
    /\ IF absent
       THEN \* preCleanText: text.replace on undefined throws a TypeError
            /\ pc' = "thrown"
            /\ UNCHANGED <<text, foundKeys, output>>
       ELSE /\ text' = preCleanText(rawText)
            /\ \E fk \in {FoundKeys(keys, text')} : \E unique \in {UniqueFoundKeys(fk)} :
                  foundKeys' = StableSort(unique,
                                  [a, b \in Elements(unique) |-> IndexCompare(a, b)])
            /\ IF foundKeys' = <<>>
               THEN output' = text' /\ pc' = "kw_done"
               ELSE pc' = "kw_found" /\ UNCHANGED output
    /\ UNCHANGED <<items, keys, keyRows, keyLocs, rowVals, results, lines,
                   rawText, label, found, values, sorted>>
    /\ UNCHANGED <<absent, callVars, appVars>>

\* lines 55-73
SliceText ==
    /\ pc = "kw_found"
    /\ results' = SliceResults(text, foundKeys)
    /\ pc' = "kw_sliced"
    /\ UNCHANGED <<items, keys, keyRows, keyLocs, rowVals, lines, output,
                   rawText, text, foundKeys, label, found, values, sorted>>
    /\ UNCHANGED <<absent, callVars, appVars>>

\* lines 76-79
FormatKeywords ==
    /\ pc = "kw_sliced"
    /\ lines' = FormatKeywordLines(keys, results)
    /\ output' = RenderLines(lines')
    /\ pc' = "kw_done"
    /\ UNCHANGED <<items, keys, keyRows, keyLocs, rowVals, results, rawText,
                   text, foundKeys, label, found, values, sorted>>
    /\ UNCHANGED <<absent, callVars, appVars>>

---------------------------------------------------------------------------
(* The parsers *)

Init == InitTable \/ InitKeywords

Next ==
    \/ LocateKeys \/ SortRows \/ CalcBoundaries \/ ExtractValues \/ FormatTable
    \/ FindKeywords \/ SliceText \/ FormatKeywords

Spec == Init /\ [][Next]_vars

---------------------------------------------------------------------------
(* findKeyInItems on its own *)

MaxFindItems == 3

FindTexts ==
    { <<"b", " ", "c">>, <<"b", "c">>, <<"b">>, <<" ", "b", " ">>,
      <<"x", "b", " ", " ", "c">>, <<"a">>, <<"v">> }

FindLabels == { <<"a">>, <<"b">>, <<"b", " ", "c">> }

\* the i-th item stands at its own position
FindItems(ts) == [i \in 1..Len(ts) |-> Frag(ts[i], 10 * i, 100 - 10 * i)]

InitFind ==
    /\ pc = "find_start"
    /\ \E n \in 0..MaxFindItems : \E ts \in [1..n -> FindTexts] : items = FindItems(ts)
    /\ label \in FindLabels
    /\ keys = <<>> /\ rawText = <<>>
    /\ keyRows = <<>> /\ keyLocs = <<>> /\ rowVals = <<>>
    /\ results = NoResults /\ lines = <<>> /\ output = <<>>
    /\ text = <<>> /\ foundKeys = <<>>
    /\ found = NoLocation /\ values = <<>> /\ sorted = <<>>
    /\ entry = "findKeyInItems"
    /\ templateName = <<>> /\ absent = FALSE /\ sectionLastIndex = 0 /\ calls = <<>>
    /\ AppIdle

FindKey ==
    /\ pc = "find_start"
    /\ found' = findKeyInItems(items, label)
    /\ pc' = "find_done"
    /\ UNCHANGED <<items, keys, keyRows, keyLocs, rowVals, results, lines, output,
                   rawText, text, foundKeys, label, values, sorted>>
    /\ UNCHANGED <<absent, callVars, appVars>>

SpecFind == InitFind /\ [][FindKey]_vars

---------------------------------------------------------------------------
(* The row sort and calculateRowBoundaries on their own *)

MaxRows == 3

RowYs == {100, 99, 70, 69, 38}

\* the key of the i-th located row: "k", "kk", ... (distinct keys)
RowKey(i) == [j \in 1..i |-> "k"]

Rows(ys) == [i \in 1..Len(ys) |-> [key |-> RowKey(i), y |-> ys[i], minY2 |-> 0, maxY2 |-> 0]]

InitRows ==
    /\ pc = "located"
    /\ \E n \in 1..MaxRows : \E ys \in [1..n -> RowYs] : keyRows = Rows(ys)
    /\ keys = [i \in 1..Len(keyRows) |-> keyRows[i].key]
    /\ items = <<>> /\ rawText = <<>>
    /\ keyLocs = <<>> /\ rowVals = <<>>
    /\ results = NoResults /\ lines = <<>> /\ output = <<>>
    /\ text = <<>> /\ foundKeys = <<>>
    /\ label = <<>> /\ found = NoLocation /\ values = <<>> /\ sorted = <<>>
    /\ entry = "parseTableByRows"
    /\ templateName = <<>> /\ absent = FALSE /\ sectionLastIndex = 0 /\ calls = <<>>
    /\ AppIdle

NextRows == SortRows \/ CalcBoundaries

SpecRows == InitRows /\ [][NextRows]_vars

---------------------------------------------------------------------------
(* sortValuesInReadingOrder on its own *)

MaxValues == 3

SortXs == {1, 2, 3}

SortYs == {0, 3, 6, 10}

Values(ps) ==
    [i \in 1..Len(ps) |-> [text |-> <<"v">>, x |-> ps[i][1], y |-> ps[i][2], src |-> i]]

InitSort ==
    /\ pc = "sort_start"
    /\ \E n \in 0..MaxValues : \E ps \in [1..n -> SortXs \X SortYs] : values = Values(ps)
    /\ items = <<>> /\ keys = <<>> /\ rawText = <<>>
    /\ keyRows = <<>> /\ keyLocs = <<>> /\ rowVals = <<>>
    /\ results = NoResults /\ lines = <<>> /\ output = <<>>
    /\ text = <<>> /\ foundKeys = <<>>
    /\ label = <<>> /\ found = NoLocation /\ sorted = <<>>
    /\ entry = "sortValuesInReadingOrder"
    /\ templateName = <<>> /\ absent = FALSE /\ sectionLastIndex = 0 /\ calls = <<>>
    /\ AppIdle

SortValues ==
    /\ pc = "sort_start"
    /\ sorted' \in sortValuesInReadingOrder(values)
    /\ pc' = "sort_done"
    /\ UNCHANGED <<items, keys, keyRows, keyLocs, rowVals, results, lines, output,
                   rawText, text, foundKeys, label, found, values>>
    /\ UNCHANGED <<absent, callVars, appVars>>

SpecSort == InitSort /\ [][SortValues]_vars

---------------------------------------------------------------------------
(* parseTableByRows on table layouts: keys in a left column and beside each
   other on one line, values on the key's line and on a continuation line,
   a blank value *)

MaxLayoutItems == 4

LayoutFragments ==
    { Frag(<<"a">>, 0, 100), Frag(<<"b", " ", "c">>, 0, 80),
      Frag(<<"b", " ", "c">>, 60, 100),
      Frag(<<"v">>, 40, 100), Frag(<<"w">>, 40, 95),
      Frag(<<"v">>, 40, 80), Frag(<<" ">>, 40, 80) }

InitLayouts ==
    /\ pc = "table_start"
    /\ \E n \in 0..MaxLayoutItems : items \in [1..n -> LayoutFragments]
    /\ keys = TableCatalog
    /\ rawText = <<>>
    /\ entry = "parseTableByRows"
    /\ Idle

NextTable == LocateKeys \/ SortRows \/ CalcBoundaries \/ ExtractValues \/ FormatTable

SpecLayouts == InitLayouts /\ [][NextTable]_vars

---------------------------------------------------------------------------
(* parseTableByRows on a two-row table: both keys in the left column, then
   (or before them) the fragments of the value column *)

MaxTableValues == 4

\* values on a key's line, right of one another, on a continuation line,
\* blank, and halfway between the two key lines
ValueFragments ==
    { Frag(<<"v">>, 40, 100), Frag(<<"w">>, 60, 100), Frag(<<"w">>, 40, 95),
      Frag(<<"v">>, 40, 80), Frag(<<" ">>, 40, 80), Frag(<<"w">>, 40, 90) }

KeyColumns ==
    { << Frag(<<"a">>, 0, 100), Frag(<<"b", " ", "c">>, 0, 80) >>,
      << Frag(<<"b", " ", "c">>, 0, 80), Frag(<<"a">>, 0, 100) >> }

InitWellFormed ==
    /\ pc = "table_start"
    /\ \E n \in 0..MaxTableValues : \E vals \in [1..n -> ValueFragments] :
          \E col \in KeyColumns : items \in {col \o vals, vals \o col}
    /\ keys = TableCatalog
    /\ rawText = <<>>
    /\ entry = "parseTableByRows"
    /\ Idle

SpecWellFormed == InitWellFormed /\ [][NextTable]_vars

---------------------------------------------------------------------------
(* postProcessText, over text items and over raw text *)

\* the letters of the model that have two cases
UpperLetters == <<"A", "E", "G", "I", "L", "N", "O", "R", "T", "V", "W">>

LowerLetters == <<"a", "e", "g", "i", "l", "n", "o", "r", "t", "v", "w">>

\* c.toLowerCase()
LowerOf(c) ==
    IF \E p \in 1..Len(UpperLetters) : UpperLetters[p] = c
    THEN LowerLetters[CHOOSE p \in 1..Len(UpperLetters) : UpperLetters[p] = c]
    ELSE c

\* s.toLowerCase()
ToLowerCase(s) == [i \in 1..Len(s) |-> LowerOf(s[i])]

\* without the i flag
Canonicalize_CaseSensitive(c) == c

\* Canonicalize of the i flag: the upper-case form of c
Canonicalize(c) ==
    IF \E p \in 1..Len(LowerLetters) : LowerLetters[p] = c
    THEN UpperLetters[CHOOSE p \in 1..Len(LowerLetters) : LowerLetters[p] = c]
    ELSE c

\* the alternatives of SECTION_IDENTIFIERS, /general|overview|..../i; the two
\* Hangul syllables of the third are written by their code points
SectionAlternatives ==
    << <<"g", "e", "n", "e", "r", "a", "l">>,
       <<"o", "v", "e", "r", "v", "i", "e", "w">>,
       <<"U+C815", "U+BCF4">> >>

\* with the g flag set
SECTION_IDENTIFIERS_GLOBAL_Set == TRUE

\* the flags of SECTION_IDENTIFIERS are "i": the expression is not global
SECTION_IDENTIFIERS_GLOBAL == FALSE

\* alternative alt matches s at the 0-based index i, ignoring case
AlternativeMatchesAt(alt, s, i) ==
    /\ i + Len(alt) <= Len(s)
    /\ \A j \in 1..Len(alt) : Canonicalize(s[i + j]) = Canonicalize(alt[j])

\* regex.test(s) for an expression with the i flag whose lastIndex is li:
\* whether it matches, and its lastIndex afterwards. A global expression
\* searches from lastIndex and moves it; any other searches from 0 and
\* leaves lastIndex alone.
RegExpTest(alts, global, s, li) ==
    LET start == IF global THEN li ELSE 0
        hits  == {i \in start..Len(s) :
                     \E a \in 1..Len(alts) : AlternativeMatchesAt(alts[a], s, i)}
    IN  IF hits = {}
        THEN [matched |-> FALSE, lastIndex |-> IF global THEN 0 ELSE li]
        ELSE LET i == CHOOSE h \in hits : \A j \in hits : h <= j
                 a == CHOOSE b \in 1..Len(alts) :
                         /\ AlternativeMatchesAt(alts[b], s, i)
                         /\ \A c \in 1..(b - 1) : ~AlternativeMatchesAt(alts[c], s, i)
             IN  [matched |-> TRUE,
                  lastIndex |-> IF global THEN i + Len(alts[a]) ELSE li]

\* items.map(item => item.str).filter(str => str.trim()).join(' ')
PlainConcatenation(its) ==
    Join(SelectSeq([i \in 1..Len(its) |-> its[i].str], LAMBDA str : Trim(str) # <<>>),
         <<" ">>)

\* postProcessText(templateName, items), part_000 lines 389-406, up to the
\* call of parseTableByRows
PostProcessItems ==
    /\ pc = "pp_start"
    /\ IF absent \/ items = <<>>
       THEN /\ output' = <<>>
            /\ pc' = "pp_done"
            /\ UNCHANGED <<keys, sectionLastIndex>>
       ELSE LET t == RegExpTest(SectionAlternatives, SECTION_IDENTIFIERS_GLOBAL,
                                ToLowerCase(templateName), sectionLastIndex)
            IN  /\ sectionLastIndex' = t.lastIndex
                /\ IF t.matched
                   THEN /\ keys' = TableCatalog
                        /\ pc' = "table_start"
                        /\ UNCHANGED output
                   ELSE /\ output' = PlainConcatenation(items)
                        /\ pc' = "pp_done"
                        /\ UNCHANGED keys
    /\ UNCHANGED <<items, keyRows, keyLocs, rowVals, results, lines, rawText,
                   text, foundKeys, label, found, values, sorted>>
    /\ UNCHANGED <<absent, templateName, calls, entry, appVars>>

\* postProcessText(templateName, rawText), part_001 lines 89-108, up to the
\* call of parseWithKeywords. overviewRegex is made by the call (lastIndex 0)
\* and has the flags "i".
PostProcessRawText ==
    /\ pc = "tp_start"
    /\ IF RegExpTest(SectionAlternatives, FALSE, templateName, 0).matched
       THEN /\ keys' = KeywordCatalog
            /\ pc' = "kw_start"
            /\ UNCHANGED <<output, text>>
       ELSE IF absent
       THEN \* preCleanText: text.replace on undefined throws a TypeError
            /\ pc' = "thrown"
            /\ UNCHANGED <<keys, output, text>>
       ELSE /\ output' = preCleanText(rawText)
            /\ pc' = "tp_done"
            /\ UNCHANGED <<keys, text>>
    /\ UNCHANGED <<items, keyRows, keyLocs, rowVals, results, lines, rawText,
                   foundKeys, label, found, values, sorted>>
    /\ UNCHANGED <<absent, callVars, appVars>>

MaxDispatchItems == 4

MaxDispatchText == 2

\* zone names: recognized in either case and inside a longer name, Korean,
\* not recognized, one letter short, empty
TemplateNames ==
    { <<"G", "e", "n", "e", "r", "a", "l">>,
      <<"O", "V", "E", "R", "V", "I", "E", "W">>,
      <<"a", " ", "o", "v", "e", "r", "v", "i", "e", "w", " ", "a">>,
      <<"U+C815", "U+BCF4">>,
      <<"R", "e", "n", "t">>,
      <<"o", "v", "e", "r", "v", "i", "e">>,
      <<>> }

DispatchFragments ==
    { Frag(<<"a">>, 0, 100), Frag(<<"v">>, 40, 100), Frag(<<"w">>, 60, 100),
      Frag(<<" ">>, 40, 100), Frag(<<"b", " ", "c">>, 0, 120) }

DispatchChars == {"a", "g", " ", ":"}

\* the per-call variables before the call has run
Fresh ==
    /\ keyRows = <<>> /\ keyLocs = <<>> /\ rowVals = <<>>
    /\ results = NoResults /\ lines = <<>> /\ output = <<>>
    /\ text = <<>> /\ foundKeys = <<>>
    /\ label = <<>> /\ found = NoLocation /\ values = <<>> /\ sorted = <<>>
    /\ AppIdle

\* parseTableByRows(its, ks) as a whole: the strings it may return
ParseTableByRowsOutcomes(its, ks) ==
    IF its = <<>> THEN {<<>>}
    ELSE IF LocateRows(its, ks) = <<>> THEN {RawConcatenation(its)}
    ELSE UNION {{RenderLines(FormatLines(ks, ResultsOf(rows, rvals))) :
                    rvals \in SortedValuesOfRows(its, rows, Len(rows))} :
                rows \in {calculateRowBoundaries(SortRowsDesc(LocateRows(its, ks)))}}

\* parseWithKeywords(raw, ks) as a whole: the string it returns
ParseWithKeywordsOutput(raw, ks) ==
    CHOOSE out \in UNION {UNION {
               {IF fk = <<>> THEN t
                ELSE RenderLines(FormatKeywordLines(ks, SliceResults(t, fk)))} :
               fk \in {StableSort(UniqueFoundKeys(FoundKeys(ks, t)),
                          [a, b \in Elements(UniqueFoundKeys(FoundKeys(ks, t))) |->
                              IndexCompare(a, b)])}} :
               t \in {preCleanText(raw)}} : TRUE

\* one call of one of the four functions: a dispatcher or a parser, on items
\* or on raw text, the argument possibly undefined
InitDispatch ==
    /\ entry \in {"postProcessText(items)", "postProcessText(rawText)",
                  "parseTableByRows", "parseWithKeywords"}
    /\ pc = CASE entry = "postProcessText(items)" -> "pp_start"
              [] entry = "postProcessText(rawText)" -> "tp_start"
              [] entry = "parseTableByRows" -> "table_start"
              [] entry = "parseWithKeywords" -> "kw_start"
    /\ absent \in BOOLEAN
    /\ IF entry \in {"postProcessText(items)", "parseTableByRows"}
       THEN /\ IF absent THEN items = <<>>
               ELSE \E n \in 0..MaxDispatchItems : items \in [1..n -> DispatchFragments]
            /\ rawText = <<>>
       ELSE /\ IF absent THEN rawText = <<>>
               ELSE \E n \in 0..MaxDispatchText : rawText \in [1..n -> DispatchChars]
            /\ items = <<>>
    /\ IF entry \in {"postProcessText(items)", "postProcessText(rawText)"}
       THEN templateName \in TemplateNames /\ keys = <<>>
       ELSE /\ templateName = <<>>
            /\ keys = IF entry = "parseTableByRows" THEN TableCatalog ELSE KeywordCatalog
    /\ sectionLastIndex = 0
    /\ calls = <<>>
    /\ Fresh

NextDispatch == PostProcessItems \/ PostProcessRawText \/ Next

SpecDispatch == InitDispatch /\ [][NextDispatch]_vars

---------------------------------------------------------------------------
(* Calls one after another in one realm: SECTION_IDENTIFIERS is one object
   for all of them *)

MaxCalls == 3

CallNames == { <<"O", "V", "E", "R", "V", "I", "E", "W">>, <<"R", "e", "n", "t">> }

CallItemLists == { <<>>, << Frag(<<"a">>, 0, 100), Frag(<<"v">>, 40, 100) >> }

CallTexts == { <<>>, <<"a", "g">> }

\* the arguments of a call
CallInputs ==
    {[entry |-> "postProcessText(items)", templateName |-> n, items |-> its,
      rawText |-> <<>>] : n \in CallNames, its \in CallItemLists}
    \cup {[entry |-> "postProcessText(rawText)", templateName |-> n, items |-> <<>>,
           rawText |-> r] : n \in CallNames, r \in CallTexts}
    \cup {[entry |-> "parseTableByRows", templateName |-> <<>>, items |-> its,
           rawText |-> <<>>] : its \in CallItemLists}
    \cup {[entry |-> "parseWithKeywords", templateName |-> <<>>, items |-> <<>>,
           rawText |-> r] : r \in CallTexts}

\* where a call of function e starts, and the catalog a parser is given
EntryPoint(e) ==
    CASE e = "postProcessText(items)" -> "pp_start"
      [] e = "postProcessText(rawText)" -> "tp_start"
      [] e = "parseTableByRows" -> "table_start"
      [] e = "parseWithKeywords" -> "kw_start"

EntryCatalog(e) ==
    CASE e = "parseTableByRows" -> TableCatalog
      [] e = "parseWithKeywords" -> KeywordCatalog
      [] OTHER -> <<>>

InitCalls ==
    /\ \E c \in CallInputs :
          /\ entry = c.entry /\ templateName = c.templateName
          /\ items = c.items /\ rawText = c.rawText
    /\ pc = EntryPoint(entry)
    /\ keys = EntryCatalog(entry)
    /\ absent = FALSE
    /\ sectionLastIndex = 0
    /\ calls = <<>>
    /\ Fresh

\* the running call returns: its arguments and its result join the history
Return ==
    /\ pc \in {"pp_done", "tp_done", "table_done", "kw_done", "thrown"}
    /\ calls' = Append(calls, [entry |-> entry, templateName |-> templateName,
                               items |-> items, rawText |-> rawText,
                               thrown |-> pc = "thrown", output |-> output])
    /\ pc' = "returned"
    /\ UNCHANGED <<items, keys, keyRows, keyLocs, rowVals, results, lines, output,
                   rawText, text, foundKeys, label, found, values, sorted>>
    /\ UNCHANGED <<absent, templateName, sectionLastIndex, entry, appVars>>

\* the next call: new arguments, new locals; what outlives a call stays
Call ==
    /\ pc = "returned"
    /\ Len(calls) < MaxCalls
    /\ \E c \in CallInputs :
          /\ entry' = c.entry /\ templateName' = c.templateName
          /\ items' = c.items /\ rawText' = c.rawText
    /\ pc' = EntryPoint(entry')
    /\ keys' = EntryCatalog(entry')
    /\ keyRows' = <<>> /\ keyLocs' = <<>> /\ rowVals' = <<>>
    /\ results' = NoResults /\ lines' = <<>> /\ output' = <<>>
    /\ text' = <<>> /\ foundKeys' = <<>>
    /\ UNCHANGED <<label, found, values, sorted, absent, sectionLastIndex, calls,
                   appVars>>

NextCalls == Return \/ Call \/ NextDispatch

SpecCalls == InitCalls /\ [][NextCalls]_vars

---------------------------------------------------------------------------
(* The extraction worker: self.onmessage of extraction.worker.ts.          *)
(* A template of the request is a record [name, text, ocr]: text is what   *)
(* extractTextFromRegion does for its zone and ocr what extractWithOCR     *)
(* does, each [ok |-> TRUE, value |-> the string] or [ok |-> FALSE] for a  *)
(* rejection.  A zone name is an atom.                                     *)

\* the variables of the text post-processing, the position excepted
parserVars == <<items, keys, keyRows, keyLocs, rowVals, results, lines, output,
                rawText, text, foundKeys, label, found, values, sorted,
                templateName, absent, sectionLastIndex, calls, entry>>

\* no call of the text post-processing is running
ParsersIdle ==
    /\ items = <<>> /\ keys = <<>> /\ rawText = <<>>
    /\ keyRows = <<>> /\ keyLocs = <<>> /\ rowVals = <<>>
    /\ results = NoResults /\ lines = <<>> /\ output = <<>>
    /\ text = <<>> /\ foundKeys = <<>>
    /\ label = <<>> /\ found = NoLocation /\ values = <<>> /\ sorted = <<>>
    /\ templateName = <<>> /\ absent = FALSE /\ sectionLastIndex = 0 /\ calls = <<>>
    /\ entry = "none"

\* what the worker's handler neither reads nor writes
outsideWorker == <<parserVars, extractorVars, storeVars, viewerVars, lastOp>>

\* line 148, with the test of the trimmed length left out
Insufficient_EmptyOnly(t) == t = <<>>

\* line 148: !text || text.trim().length < 5
Insufficient(t) == t = <<>> \/ Len(Trim(t)) < 5

\* line 182
OCR_ERROR == <<"O", "C", "R", " ", "E", "r", "r", "o", "r">>

\* results[name] = value on an object created by {}: the property becomes
\* an own property, except for the name __proto__, which is the accessor of
\* Object.prototype: its setter ignores a value that is not an object
SetProperty(obj, name, value) ==
    IF name = "__proto__" THEN obj
    ELSE [n \in (DOMAIN obj) \cup {name} |-> IF n = name THEN value ELSE obj[n]]

\* line 182: results[template.name] = "OCR Error"
StoreOcrError(obj, name) == SetProperty(obj, name, OCR_ERROR)

\* Promise.all, settled as soon as one promise is fulfilled
PromiseAllFulfilled_Any(ps) == \E t \in 1..Len(ps) : ps[t] = "fulfilled"

\* line 158: Promise.all is fulfilled when every promise is
PromiseAllFulfilled(ps) == \A t \in 1..Len(ps) : ps[t] = "fulfilled"

\* line 158: Promise.all is rejected when one promise is
PromiseAllRejected(ps) == \E t \in 1..Len(ps) : ps[t] = "rejected"

Progress(m) == [type |-> "progress", data |-> m]

\* lines 111 and 193, posting a message that is not terminal
ErrorMessage_AsProgress(m) == [type |-> "progress", data |-> m]

ErrorMessage(m) == [type |-> "error", data |-> m]

SuccessMessage(r) == [type |-> "success", data |-> r]

\* lines 107-117: the message arrives; a missing file or missing templates
\* is answered at once
Receive ==
    /\ pc = "w_start"
    /\ IF ~request.file \/ ~request.hasTemplates
       THEN /\ posted' = Append(posted, ErrorMessage(<<"Missing file or templates.">>))
            /\ pc' = "w_done"
       ELSE /\ posted' = Append(posted, Progress(<<"Loading PDF...">>))
            /\ pc' = "w_loading"
    /\ UNCHANGED <<request, pass1, ocrQueue, workerResults, ocrIndex, inFlight, ocrDone>>
    /\ UNCHANGED outsideWorker

\* lines 123-155: the document and the page load, or one of the three awaits
\* rejects (line 190); after loading, templates.map starts every text
\* extraction, each running up to its first await
LoadPdf ==
    /\ pc = "w_loading"
    /\ \/ /\ posted' = Append(posted, ErrorMessage(<<"load">>))
          /\ pc' = "w_done"
          /\ UNCHANGED pass1
       \/ /\ posted' = Append(posted, Progress(<<"Pass 1/2: Extracting text...">>))
          /\ pass1' = [t \in 1..Len(request.templates) |-> "pending"]
          /\ pc' = "w_pass1"
    /\ UNCHANGED <<request, ocrQueue, workerResults, ocrIndex, inFlight, ocrDone>>
    /\ UNCHANGED outsideWorker

\* lines 147-154: the text extraction of one template settles and its
\* callback continues; the handler may have left pass 1 by a rejection
TextSettles ==
    /\ pc \in {"w_pass1", "w_done"}
    /\ \E t \in 1..Len(pass1) :
          /\ pass1[t] = "pending"
          /\ LET tpl == request.templates[t] IN
             IF ~tpl.text.ok
             THEN /\ pass1' = [pass1 EXCEPT ![t] = "rejected"]
                  /\ UNCHANGED <<ocrQueue, workerResults>>
             ELSE /\ pass1' = [pass1 EXCEPT ![t] = "fulfilled"]
                  /\ IF Insufficient(tpl.text.value)
                     THEN /\ ocrQueue' = Append(ocrQueue, t)
                          /\ UNCHANGED workerResults
                     ELSE /\ workerResults' =
                                SetProperty(workerResults, tpl.name, Trim(tpl.text.value))
                          /\ UNCHANGED ocrQueue
    /\ UNCHANGED <<pc, request, ocrIndex, inFlight, ocrDone, posted>>
    /\ UNCHANGED outsideWorker

\* lines 158-162 and 190-193: the await of Promise.all returns or throws
AwaitAll ==
    /\ pc = "w_pass1"
    /\ IF PromiseAllRejected(pass1)
       THEN /\ posted' = Append(posted, ErrorMessage(<<"text">>))
            /\ pc' = "w_done"
            /\ UNCHANGED ocrIndex
       ELSE /\ PromiseAllFulfilled(pass1)
            /\ ocrIndex' = 1
            /\ pc' = "w_pass2"
            /\ UNCHANGED posted
    /\ UNCHANGED <<request, pass1, ocrQueue, workerResults, inFlight, ocrDone>>
    /\ UNCHANGED outsideWorker

\* lines 163-177: one turn of the loop up to the await of extractWithOCR
OcrStart ==
    /\ pc = "w_pass2"
    /\ ocrIndex <= Len(ocrQueue)
    /\ posted' = Append(posted, Progress(<<"Pass 2/2: Running OCR on",
                            request.templates[ocrQueue[ocrIndex]].name,
                            ocrIndex, Len(ocrQueue)>>))
    /\ inFlight' = inFlight \cup {ocrQueue[ocrIndex]}
    /\ pc' = "w_ocr"
    /\ UNCHANGED <<request, pass1, ocrQueue, workerResults, ocrIndex, ocrDone>>
    /\ UNCHANGED outsideWorker

\* lines 177-184: extractWithOCR settles; the loop goes on either way
OcrSettles ==
    /\ pc = "w_ocr"
    /\ LET t == ocrQueue[ocrIndex]
           tpl == request.templates[t]
       IN  /\ workerResults' =
                 IF tpl.ocr.ok
                 THEN SetProperty(workerResults, tpl.name, tpl.ocr.value)
                 ELSE StoreOcrError(workerResults, tpl.name)
           /\ inFlight' = inFlight \ {t}
           /\ ocrDone' = Append(ocrDone, t)
    /\ ocrIndex' = ocrIndex + 1
    /\ pc' = "w_pass2"
    /\ UNCHANGED <<request, pass1, ocrQueue, posted>>
    /\ UNCHANGED outsideWorker

\* lines 161, 163 and 188: the queue is empty or exhausted
PostSuccess ==
    /\ pc = "w_pass2"
    /\ ocrIndex > Len(ocrQueue)
    /\ posted' = Append(posted, SuccessMessage(workerResults))
    /\ pc' = "w_done"
    /\ UNCHANGED <<request, pass1, ocrQueue, workerResults, ocrIndex, inFlight, ocrDone>>
    /\ UNCHANGED outsideWorker

\* the largest number of templates of a request
MaxZones == 3

Outcome(v) == [ok |-> TRUE, value |-> v]

Rejection == [ok |-> FALSE, value |-> <<>>]

Zone(name, t, o) == [name |-> name, text |-> t, ocr |-> o]

\* zones whose text layer is enough, too short, empty or unreadable, and
\* whose OCR gives a text or fails; two of them share the name A
Zones ==
    { Zone("A", Outcome(<<"h", "e", "l", "l", "o">>), Rejection),
      Zone("A", Outcome(<<"a", "b", "c", "d">>), Rejection),
      Zone("B", Outcome(<<>>), Outcome(<<"w", "o", "r", "d">>)),
      Zone("B", Rejection, Rejection),
      Zone("C", Outcome(<<"a", "b", "c", "d">>), Outcome(<<>>)),
      Zone("__proto__", Outcome(<<"h", "e", "l", "l", "o", "!">>), Rejection),
      Zone("__proto__", Outcome(<<>>), Rejection) }

InitWorker ==
    /\ pc = "w_start"
    /\ \/ \E n \in 0..MaxZones : \E ts \in [1..n -> Zones] :
             request = [file |-> TRUE, hasTemplates |-> TRUE, templates |-> ts]
       \/ \E f \in BOOLEAN :
             request = [file |-> f, hasTemplates |-> FALSE, templates |-> <<>>]
       \/ \E ts \in [1..1 -> Zones] :
             request = [file |-> FALSE, hasTemplates |-> TRUE, templates |-> ts]
    /\ pass1 = <<>> /\ ocrQueue = <<>> /\ workerResults = <<>>
    /\ ocrIndex = 0 /\ inFlight = {} /\ ocrDone = <<>> /\ posted = <<>>
    /\ worker = 0 /\ workers = <<>> /\ callbacks = <<>>
    /\ templates = <<>> /\ selectedTemplateId = Null
    /\ lastOp = [op |-> "none", id |-> Null, arg |-> Null]
    /\ drawingState = NoDrawing /\ pdfDocument = FALSE
    /\ ParsersIdle

NextWorker ==
    Receive \/ LoadPdf \/ TextSettles \/ AwaitAll \/ OcrStart \/ OcrSettles \/ PostSuccess

SpecWorker == InitWorker /\ [][NextWorker]_vars

---------------------------------------------------------------------------
(* The extractor module: runExtractionInWorker and the handlers it sets.   *)
(* A Worker is a record: terminated (terminate() was called on it), stage  *)
(* (what its script is doing), sent (the 'progress' messages it has posted *)
(* so far), port (the messages it has posted that the main thread has not  *)
(* dispatched yet) and errors (the error events queued at it and not       *)
(* dispatched yet).  The worker is its index in workers.                   *)

\* what the extractor module neither reads nor writes
outsideExtractor == <<pc, parserVars, workerVars, storeVars, viewerVars, lastOp>>

\* terminate() that leaves the worker running
Terminate_Nothing(ws, w) == ws

\* worker?.terminate(): nothing for null; the worker stops and the messages
\* it posted that are still in the port message queue are dropped (HTML,
\* "terminate a worker").  An error event already queued at the Worker
\* object is a task of the main thread and stays queued.
Terminate(ws, w) ==
    IF w = 0 THEN ws
    ELSE [ws EXCEPT ![w].terminated = TRUE, ![w].port = <<>>]

NewWorker ==
    [terminated |-> FALSE, stage |-> "running", sent |-> 0, port |-> <<>>, errors |-> 0]

Callback(w, kind) == [run |-> w, kind |-> kind]

\* the largest number of calls of runExtractionInWorker
MaxRuns == 3

\* the largest number of 'progress' messages of one worker
MaxProgress == 1

\* lines 37-77: terminate the existing worker, create one, set its handlers
\* and post the request
RunExtraction ==
    /\ Len(workers) < MaxRuns
    /\ workers' = Append(Terminate(workers, worker), NewWorker)
    /\ worker' = Len(workers) + 1
    /\ UNCHANGED callbacks
    /\ UNCHANGED outsideExtractor

\* the script of a running worker posts a message: 'progress', or the one
\* terminal message of its request
WorkerPosts ==
    /\ \E w \in 1..Len(workers) : \E type \in {"progress", "success", "error"} :
          /\ ~workers[w].terminated
          /\ workers[w].stage = "running"
          /\ type = "progress" => workers[w].sent < MaxProgress
          /\ workers' = [workers EXCEPT
                ![w].port = Append(@, type),
                ![w].sent = IF type = "progress" THEN @ + 1 ELSE @,
                ![w].stage = IF type = "progress" THEN "running" ELSE "ended"]
    /\ UNCHANGED <<worker, callbacks>>
    /\ UNCHANGED outsideExtractor

\* the script of a worker fails to load or throws: an error event is queued
\* at the Worker object
WorkerFails ==
    /\ \E w \in 1..Len(workers) :
          /\ ~workers[w].terminated
          /\ workers[w].stage = "running"
          /\ workers' = [workers EXCEPT ![w].errors = 1, ![w].stage = "failed"]
    /\ UNCHANGED <<worker, callbacks>>
    /\ UNCHANGED outsideExtractor

\* lines 48-67: worker.onmessage of the worker w runs for its oldest message;
\* `worker` in its body is the module-level variable
OnMessage ==
    /\ \E w \in 1..Len(workers) :
          /\ workers[w].port # <<>>
          /\ LET type == Head(workers[w].port)
                 taken == [workers EXCEPT ![w].port = Tail(@)]
             IN  CASE type = "progress" ->
                        /\ callbacks' = Append(callbacks, Callback(w, "onProgress"))
                        /\ workers' = taken
                        /\ UNCHANGED worker
                   [] type = "success" ->
                        /\ callbacks' = Append(callbacks, Callback(w, "onSuccess"))
                        /\ workers' = Terminate(taken, worker)
                        /\ worker' = 0
                   [] type = "error" ->
                        /\ callbacks' = Append(callbacks, Callback(w, "onError"))
                        /\ workers' = Terminate(taken, worker)
                        /\ worker' = 0
    /\ UNCHANGED outsideExtractor

\* lines 70-74: worker.onerror of the worker w runs
OnError ==
    /\ \E w \in 1..Len(workers) :
          /\ workers[w].errors > 0
          /\ callbacks' = Append(callbacks, Callback(w, "onError"))
          /\ workers' = Terminate([workers EXCEPT ![w].errors = 0], worker)
          /\ worker' = 0
    /\ UNCHANGED outsideExtractor

InitExtractor ==
    /\ pc = "main"
    /\ ParsersIdle
    /\ AppIdle

NextExtractor == RunExtraction \/ WorkerPosts \/ WorkerFails \/ OnMessage \/ OnError

SpecExtractor == InitExtractor /\ [][NextExtractor]_vars

---------------------------------------------------------------------------
(* The template store: useTemplateStore of templateStore.ts.  A template   *)
(* is a record [id, name, bbox]; a bounding box is an atom.                *)

\* what the store's actions neither read nor write
outsideStore == <<pc, parserVars, workerVars, extractorVars, viewerVars>>

\* the largest number of templates in the store
MaxStored == 2

TemplateIds == {"zone_1", "zone_2"}

ZoneNames == {"Rent", "Overview"}

Bboxes == {"bbox_1", "bbox_2"}

StoredTemplates == [id : TemplateIds, name : ZoneNames, bbox : Bboxes]

Op(op, id, arg) == [op |-> op, id |-> id, arg |-> arg]

\* removeTemplate that keeps the selection
SelectionAfterRemove_Kept(selected, templateId) == selected

\* line 76
SelectionAfterRemove(selected, templateId) ==
    IF selected = templateId THEN Null ELSE selected

\* line 65
SetTemplates ==
    /\ \E n \in 0..MaxStored : templates' \in [1..n -> StoredTemplates]
    /\ selectedTemplateId' = Null
    /\ lastOp' = Op("setTemplates", Null, Null)
    /\ UNCHANGED outsideStore

\* lines 67-70
AddTemplate ==
    /\ Len(templates) < MaxStored
    /\ \E newTemplate \in StoredTemplates :
          /\ templates' = Append(templates, newTemplate)
          /\ lastOp' = Op("addTemplate", newTemplate.id, Null)
    /\ UNCHANGED selectedTemplateId
    /\ UNCHANGED outsideStore

\* lines 72-77
RemoveTemplate ==
    /\ \E templateId \in TemplateIds :
          /\ templates' = SelectSeq(templates, LAMBDA t : t.id # templateId)
          /\ selectedTemplateId' = SelectionAfterRemove(selectedTemplateId, templateId)
          /\ lastOp' = Op("removeTemplate", templateId, Null)
    /\ UNCHANGED outsideStore

\* lines 79-84
UpdateTemplateName ==
    /\ \E templateId \in TemplateIds : \E newName \in ZoneNames :
          /\ templates' = [i \in 1..Len(templates) |->
                IF templates[i].id = templateId
                THEN [templates[i] EXCEPT !.name = newName] ELSE templates[i]]
          /\ lastOp' = Op("updateTemplateName", templateId, newName)
    /\ UNCHANGED selectedTemplateId
    /\ UNCHANGED outsideStore

\* line 86, called as BoundingBox.tsx line 55 calls it: with the id of a
\* template that is rendered, or with null
SetSelectedTemplateId ==
    /\ \E templateId \in {Null} \cup {templates[i].id : i \in 1..Len(templates)} :
          /\ selectedTemplateId' = templateId
          /\ lastOp' = Op("setSelectedTemplateId", templateId, Null)
    /\ UNCHANGED templates
    /\ UNCHANGED outsideStore

\* lines 88-93
UpdateTemplateBbox ==
    /\ \E templateId \in TemplateIds : \E newBbox \in Bboxes :
          /\ templates' = [i \in 1..Len(templates) |->
                IF templates[i].id = templateId
                THEN [templates[i] EXCEPT !.bbox = newBbox] ELSE templates[i]]
          /\ lastOp' = Op("updateTemplateBbox", templateId, newBbox)
    /\ UNCHANGED selectedTemplateId
    /\ UNCHANGED outsideStore

\* lines 60-61
InitStore ==
    /\ pc = "main"
    /\ ParsersIdle
    /\ AppIdle

NextStore ==
    \/ SetTemplates \/ AddTemplate \/ RemoveTemplate
    \/ UpdateTemplateName \/ SetSelectedTemplateId \/ UpdateTemplateBbox

SpecStore == InitStore /\ [][NextStore]_vars

---------------------------------------------------------------------------
(* PdfViewer's zone drawing: handleMouseDown, handleMouseMove and          *)
(* handleMouseUp of PdfViewer.tsx, each running on the drawingState of the *)
(* render that follows the event before it.  The answer of prompt() is     *)
(* [given |-> FALSE] for Cancel and [given |-> TRUE, value |-> the text]   *)
(* otherwise.                                                              *)

\* what the viewer's handlers neither read nor write
outsideViewer == <<pc, parserVars, workerVars, extractorVars, selectedTemplateId>>

\* the largest number of templates drawn
MaxDrawn == 2

\* line 170: the smallest side of a valid selection
MIN_ZONE_SIDE == 5

OffsetXs == {0, 4, 9}

OffsetYs == {0, 5}

PromptAnswers ==
    { [given |-> FALSE, value |-> <<>>], [given |-> TRUE, value |-> <<>>],
      [given |-> TRUE, value |-> <<" ">>], [given |-> TRUE, value |-> <<" ", "R">>] }

\* lines 123-130
calculateRect(startX, startY, endX, endY) ==
    [x1 |-> Min2(startX, endX), y1 |-> Min2(startY, endY),
     x2 |-> Max2(startX, endX), y2 |-> Max2(startY, endY)]

\* line 170
TooSmall(rect) ==
    Abs(rect.x2 - rect.x1) < MIN_ZONE_SIDE \/ Abs(rect.y2 - rect.y1) < MIN_ZONE_SIDE

\* line 178: zoneName && zoneName.trim() !== ''
NameGiven(answer) == answer.given /\ answer.value # <<>> /\ Trim(answer.value) # <<>>

\* line 85: the document is parsed and saved to the store
DocumentLoaded ==
    /\ ~pdfDocument
    /\ pdfDocument' = TRUE
    /\ lastOp' = Op("load", Null, Null)
    /\ UNCHANGED <<drawingState, templates>>
    /\ UNCHANGED outsideViewer

\* lines 135-148
MouseDown ==
    /\ \E offsetX \in OffsetXs : \E offsetY \in OffsetYs :
          IF ~pdfDocument
          THEN UNCHANGED drawingState
          ELSE drawingState' = [isDrawing |-> TRUE, startX |-> offsetX,
                                startY |-> offsetY, currentRect |-> <<>>]
    /\ lastOp' = Op("mousedown", Null, Null)
    /\ UNCHANGED <<pdfDocument, templates>>
    /\ UNCHANGED outsideViewer

\* lines 153-160
MouseMove ==
    /\ \E offsetX \in OffsetXs : \E offsetY \in OffsetYs :
          IF ~drawingState.isDrawing
          THEN UNCHANGED drawingState
          ELSE drawingState' = [drawingState EXCEPT !.currentRect =
                  <<calculateRect(drawingState.startX, drawingState.startY,
                                  offsetX, offsetY)>>]
    /\ lastOp' = Op("mousemove", Null, Null)
    /\ UNCHANGED <<pdfDocument, templates>>
    /\ UNCHANGED outsideViewer

\* lines 165-188, the handler of onMouseUp and of onMouseLeave (lines 198-200)
MouseUp ==
    /\ \E event \in {"mouseup", "mouseleave"} : lastOp' = Op(event, Null, Null)
    /\ IF ~drawingState.isDrawing \/ drawingState.currentRect = <<>>
       THEN UNCHANGED <<drawingState, templates>>
       ELSE IF TooSmall(drawingState.currentRect[1])
       THEN drawingState' = NoDrawing /\ UNCHANGED templates
       ELSE /\ \E zoneName \in PromptAnswers :
                  IF NameGiven(zoneName)
                  THEN /\ Len(templates) < MaxDrawn
                       /\ \E now \in TemplateIds :
                             templates' = Append(templates,
                                [id |-> now, name |-> Trim(zoneName.value),
                                 bbox |-> drawingState.currentRect[1]])
                  ELSE UNCHANGED templates
            /\ drawingState' = NoDrawing
    /\ UNCHANGED pdfDocument
    /\ UNCHANGED outsideViewer

\* lines 48-53
InitViewer ==
    /\ pc = "main"
    /\ ParsersIdle
    /\ AppIdle

NextViewer == DocumentLoaded \/ MouseDown \/ MouseMove \/ MouseUp

SpecViewer == InitViewer /\ [][NextViewer]_vars

---------------------------------------------------------------------------
(* Properties *)

TableDone == pc = "table_done"

Extracted == pc \in {"extracted", "table_done"} /\ keyRows # <<>>

\* the index of key k in the catalog ks, 0 when absent
CatalogIndex(ks, k) ==
    IF \E p \in 1..Len(ks) : ks[p] = k
    THEN CHOOSE p \in 1..Len(ks) : ks[p] = k /\ \A q \in 1..(p - 1) : ks[q] # k
    ELSE 0

\* C1: when a parser returns key/value lines, every line's key is a catalog
\* key and the lines appear in catalog order (their catalog indices strictly
\* increase from top to bottom), so no key has two lines and the order is
\* never the on-page or text-offset order.
C1_CatalogOrder ==
    pc \in {"table_done", "kw_done"} =>
        /\ \A i \in 1..Len(lines) : CatalogIndex(keys, lines[i].key) # 0
        /\ \A i, j \in 1..Len(lines) :
              i < j => CatalogIndex(keys, lines[i].key) < CatalogIndex(keys, lines[j].key)

\* two lines whose rows stand on the page in the opposite order
C1_Witness ==
    /\ TableDone
    /\ Len(lines) = 2
    /\ Len(keyRows) = 2
    /\ keyRows[1].y > keyRows[2].y
    /\ keyRows[1].key = lines[2].key
    /\ keyRows[2].key = lines[1].key

\* the fragments (by index) a row's extracted values were made from
RowSources(i) == {rowVals[i][a].src : a \in 1..Len(rowVals[i])}

\* C2: after value extraction no fragment is among the extracted values of
\* two different rows.
C2_NoSharedFragment ==
    Extracted =>
        \A i, j \in 1..Len(keyRows) : i # j => RowSources(i) \cap RowSources(j) = {}

FirstWord(key) == SplitWs(key)[1]

\* fragment j repeats the first word of row i's key within the exclusion
\* tolerance of the key's y
IsKeyEcho(i, j) ==
    /\ \/ Trim(items[j].str) = FirstWord(keyRows[i].key)
       \/ Includes(Trim(items[j].str), FirstWord(keyRows[i].key))
    /\ items[j].y - keyLocs[i].y <= 8
    /\ keyLocs[i].y - items[j].y <= 8

\* C3: a row's extracted values never contain the fragment located as the
\* row's key, nor a fragment whose trimmed text equals or contains the key's
\* first word and whose y is within 8 units of the key's y.
C3_KeyExcluded ==
    Extracted =>
        \A i \in 1..Len(keyRows) : \A j \in RowSources(i) :
            j # keyLocs[i].item /\ ~IsKeyEcho(i, j)

InBand(i, j) == keyRows[i].minY2 <= 2 * items[j].y /\ 2 * items[j].y <= keyRows[i].maxY2

RightOfKey(i, j) ==
    items[j].x > keyLocs[i].x + 8 * Len(StripWs(keyRows[i].key)) + 20

\* a key echo that lies inside the row band and right of the key is left out
C3_Witness ==
    /\ Extracted
    /\ \E i \in 1..Len(keyRows) : \E j \in 1..Len(items) :
          /\ j # keyLocs[i].item
          /\ IsKeyEcho(i, j) /\ InBand(i, j) /\ RightOfKey(i, j)
          /\ j \notin RowSources(i)

\* C4: after the rows are sorted by descending y and calculateRowBoundaries
\* has run, every row has y - 15 <= minY <= y <= maxY <= y + 15.
C4_BandAroundKey ==
    pc = "bounded" =>
        \A i \in 1..Len(keyRows) :
            /\ 2 * (keyRows[i].y - 15) <= keyRows[i].minY2
            /\ keyRows[i].minY2 <= 2 * keyRows[i].y
            /\ 2 * keyRows[i].y <= keyRows[i].maxY2
            /\ keyRows[i].maxY2 <= 2 * (keyRows[i].y + 15)

\* three rows: two on equal y, and a neighbour more than 30 units away
C4_Witness ==
    /\ pc = "bounded"
    /\ Len(keyRows) = 3
    /\ keyRows[1].y = keyRows[2].y
    /\ keyRows[2].y - keyRows[3].y > 30

\* C5: for adjacent rows i, i+1 (sorted by descending y) at most 30 units
\* apart, row i's minY and row i+1's maxY both equal the midpoint
\* (y_i + y_{i+1}) / 2.
C5_SharedMidpoint ==
    pc = "bounded" =>
        \A i \in 1..(Len(keyRows) - 1) :
            keyRows[i].y - keyRows[i + 1].y <= 30 =>
                /\ keyRows[i].minY2 = keyRows[i].y + keyRows[i + 1].y
                /\ keyRows[i + 1].maxY2 = keyRows[i].y + keyRows[i + 1].y

\* a pair exactly 30 apart and a pair one unit apart (a half-integer midpoint)
C5_Witness ==
    /\ pc = "bounded"
    /\ Len(keyRows) = 3
    /\ keyRows[1].y - keyRows[2].y = 30
    /\ keyRows[2].y - keyRows[3].y = 1

\* the texts of all fragments in input order, joined by single spaces
SpaceJoinedTexts == Join([i \in 1..Len(items) |-> items[i].str], <<" ">>)

NoKeyVerbatim ==
    \A k \in 1..Len(keys) : \A i \in 1..Len(items) : ~Includes(items[i].str, keys[k])

\* no strategy of findKeyInItems matches any fragment, for any catalog key
NoKeyLocated ==
    \A k \in 1..Len(keys) : \A i \in 1..Len(items) :
        /\ ~Includes(items[i].str, keys[k])
        /\ ~Includes(StripWs(items[i].str), StripWs(keys[k]))
        /\ Len(SplitWs(keys[k])) > 1 =>
              ~Includes(Trim(items[i].str), FirstWord(keys[k]))

\* C6 as stated: if no fragment's text contains a catalog key, the positional
\* parser returns the space-joined fragment texts and no key/value line.
C6_Original ==
    (TableDone /\ items # <<>> /\ NoKeyVerbatim) =>
        output = SpaceJoinedTexts /\ lines = <<>>

\* C6, amended: if no catalog key is located by any of the three strategies
\* (verbatim, whitespace-stripped, first word of a multi-word key), the
\* positional parser returns the space-joined fragment texts and no line.
C6_Fallback ==
    (TableDone /\ items # <<>> /\ NoKeyLocated) =>
        output = SpaceJoinedTexts /\ lines = <<>>

C6_Witness ==
    /\ TableDone
    /\ Len(items) >= 3
    /\ NoKeyLocated
    /\ \E i, j \in 1..Len(items) : items[i].str # items[j].str

\* C7: if the pre-cleaned text contains no catalog key as a substring, the
\* keyword-slice parser returns exactly the pre-cleaned text.
C7_KeywordFallback ==
    (pc = "kw_done" /\ \A k \in 1..Len(keys) : ~Includes(preCleanText(rawText), keys[k])) =>
        output = preCleanText(rawText)

\* the least element of a non-empty set of indices
Least(S) == CHOOSE i \in S : \A j \in S : i <= j

Verbatim == {i \in 1..Len(items) : Includes(items[i].str, label)}

Stripped == {i \in 1..Len(items) : Includes(StripWs(items[i].str), StripWs(label))}

ByFirstWord ==
    {i \in 1..Len(items) :
        \/ Trim(items[i].str) = FirstWord(label)
        \/ Includes(Trim(items[i].str), FirstWord(label))}

\* C8: findKeyInItems returns the first fragment containing the label
\* verbatim; else the first one matching with whitespace stripped from both
\* texts; else, for a label of more than one word only, the first one whose
\* trimmed text equals or contains the label's first word; else not found.
C8_StrategyOrder ==
    pc = "find_done" =>
        LET hit == IF Verbatim # {} THEN Least(Verbatim)
                   ELSE IF Stripped # {} THEN Least(Stripped)
                   ELSE IF Len(SplitWs(label)) > 1 /\ ByFirstWord # {}
                        THEN Least(ByFirstWord)
                   ELSE 0
        IN  /\ found.item = hit
            /\ hit # 0 => found.x = items[hit].x /\ found.y = items[hit].y

\* the verbatim match is returned although earlier fragments match after
\* stripping or by first word
C8_Witness ==
    /\ pc = "find_done"
    /\ found.item = 3
    /\ 1 \in ByFirstWord \ Stripped
    /\ 2 \in Stripped \ Verbatim
    /\ 3 \in Verbatim

\* C9: a row's extracted values are made from exactly the fragments that are
\* not the key's fragment, are no key echo, lie in [minY, maxY] and have
\* x > key.x + 8 * (non-whitespace characters of the key) + 20.
C9_ExtractedExactly ==
    Extracted =>
        \A i \in 1..Len(keyRows) : \A j \in 1..Len(items) :
            j \in RowSources(i) <=>
                /\ j # keyLocs[i].item
                /\ ~IsKeyEcho(i, j)
                /\ InBand(i, j)
                /\ RightOfKey(i, j)

\* a fragment in the band exactly at the offset is dropped, and a first-word
\* match more than 8 units from the key's y but inside the band is kept
C9_Witness ==
    /\ Extracted
    /\ \E i \in 1..Len(keyRows) : \E j \in 1..Len(items) :
          /\ j # keyLocs[i].item /\ InBand(i, j) /\ ~IsKeyEcho(i, j)
          /\ items[j].x = keyLocs[i].x + 8 * Len(StripWs(keyRows[i].key)) + 20
          /\ j \notin RowSources(i)
    /\ \E i \in 1..Len(keyRows) : \E j \in RowSources(i) :
          /\ Includes(Trim(items[j].str), FirstWord(keyRows[i].key))
          /\ keyLocs[i].y - items[j].y > 8

SameLine(a, b) == a.y - b.y <= 3 /\ b.y - a.y <= 3

\* every value placed before another is left of it (or level) when the two
\* are on the same line, and above it when they are not
ReadingOrder(s) ==
    \A i, j \in 1..Len(s) :
        i < j => IF SameLine(s[i], s[j]) THEN s[i].x <= s[j].x ELSE s[i].y > s[j].y

\* C10 as stated: the sorted values are in reading order, for every
\* collection of values.
C10_Original == pc = "sort_done" => ReadingOrder(sorted)

\* being on the same line is transitive among the values
SameLineTransitive(s) ==
    \A i, j, k \in 1..Len(s) :
        (SameLine(s[i], s[j]) /\ SameLine(s[j], s[k])) => SameLine(s[i], s[k])

\* C10, amended: the sorted values are in reading order for every collection
\* in which "y-values differ by no more than 3" is transitive.
C10_ReadingOrder ==
    (pc = "sort_done" /\ SameLineTransitive(values)) => ReadingOrder(sorted)

\* three values, two on one line out of x order and one on another line,
\* which the sort had to move
C10_Witness ==
    /\ pc = "sort_done"
    /\ Len(values) = 3
    /\ SameLineTransitive(values)
    /\ sorted # values
    /\ \E i, j \in 1..3 : i < j /\ SameLine(values[i], values[j])
                          /\ values[i].y # values[j].y /\ values[i].x > values[j].x
    /\ \E i, j \in 1..3 : ~SameLine(values[i], values[j])


\* catalog key keys[k] is located in the fragments
Located(k) == findKeyInItems(items, keys[k]).item # 0

\* the row of catalog key keys[k], 0 when there is none
RowOf(k) ==
    IF \E i \in 1..Len(keyRows) : keyRows[i].key = keys[k]
    THEN CHOOSE i \in 1..Len(keyRows) : keyRows[i].key = keys[k]
    ELSE 0

\* the texts of the values extracted for row i, joined by single spaces and
\* trimmed
JoinedValueText(i) == Trim(Join([a \in 1..Len(rowVals[i]) |-> rowVals[i][a].text], <<" ">>))

\* catalog key keys[k] is located and its value text is not empty
HasValueText(k) == Located(k) /\ RowOf(k) # 0 /\ JoinedValueText(RowOf(k)) # <<>>

\* C11: when at least one key is located, the finished positional parse has
\* a line for a catalog key exactly when the key is located and the
\* space-joined, trimmed text of its extracted values is not empty; the line
\* is "<key>: <that text>", and the output is these lines joined by newlines
\* and nothing else (no blank line, no placeholder).
C11_LineIffValue ==
    (TableDone /\ keyRows # <<>>) =>
        /\ \A k \in 1..Len(keys) :
              (\E l \in 1..Len(lines) : lines[l].key = keys[k]) <=> HasValueText(k)
        /\ \A l \in 1..Len(lines) : \E k \in 1..Len(keys) :
              /\ lines[l].key = keys[k]
              /\ lines[l].value = JoinedValueText(RowOf(k))
        /\ Len(lines) = Cardinality({k \in 1..Len(keys) : HasValueText(k)})
        /\ output = Join([l \in 1..Len(lines) |->
                            lines[l].key \o <<":", " ">> \o lines[l].value], <<"\n">>)

\* one key with a line, and one located key whose only value is blank
C11_Witness ==
    /\ TableDone
    /\ Len(keyRows) = 2
    /\ Len(lines) = 1
    /\ \E i \in 1..2 : rowVals[i] # <<>> /\ JoinedValueText(i) = <<>>

KeywordsSearched == pc \in {"kw_found", "kw_sliced", "kw_done"}

\* C12: after the key search of the keyword-slice parser, a catalog key is
\* among the found keys exactly when it occurs in the cleaned text as a
\* literal substring, it is recorded once, and its recorded offset is the
\* smallest index at which it literally occurs.
C12_LiteralOccurrence ==
    KeywordsSearched =>
        \A k \in 1..Len(keys) :
            LET recs == {f \in 1..Len(foundKeys) : foundKeys[f].key = keys[k]}
            IN  /\ (recs # {}) <=> Includes(text, keys[k])
                /\ Cardinality(recs) <= 1
                /\ \A f \in recs : foundKeys[f].index = IndexOf(text, keys[k])

KeywordsSliced == pc \in {"kw_sliced", "kw_done"} /\ foundKeys # <<>>

\* the text from the offset of the i-th found key to the offset of the next
\* found key, or to the end of the text for the last one
Span(i) ==
    SubSeq(text, foundKeys[i].index + 1,
           IF i < Len(foundKeys) THEN foundKeys[i + 1].index ELSE Len(text))

\* v trimmed, then without one leading ":" and the whitespace around it
WithoutLeadingColon(v) ==
    IF Trim(v) # <<>> /\ Trim(v)[1] = ":" THEN Trim(Tail(Trim(v))) ELSE Trim(v)

\* C13: with the found keys in offset order, the span of each found key
\* starts with the key's own occurrence, and the key's value is the rest of
\* that span, trimmed and without one leading ":" and its surrounding
\* whitespace; spans follow each other without overlap (offsets increase).
C13_ValueFromSpan ==
    KeywordsSliced =>
        /\ \A i \in 1..(Len(foundKeys) - 1) : foundKeys[i].index <= foundKeys[i + 1].index
        /\ \A i \in 1..Len(foundKeys) :
              LET key == foundKeys[i].key
              IN  /\ Len(key) <= Len(Span(i))
                  /\ SubSeq(Span(i), 1, Len(key)) = key
                  /\ results[key] =
                        WithoutLeadingColon(SubSeq(Span(i), Len(key) + 1, Len(Span(i))))

\* fragment i matches catalog key keys[k] by one of the three strategies
Matches(i, k) ==
    \/ Includes(items[i].str, keys[k])
    \/ Includes(StripWs(items[i].str), StripWs(keys[k]))
    \/ /\ Len(SplitWs(keys[k])) > 1
       /\ Includes(Trim(items[i].str), FirstWord(keys[k]))

\* fragment i is a key fragment; the other fragments are value fragments
IsKeyItem(i) == \E k \in 1..Len(keys) : Matches(i, k)

\* the value fragments inside the band of catalog key keys[k]
ValueItemsOf(k) == {j \in 1..Len(items) : ~IsKeyItem(j) /\ InBand(RowOf(k), j)}

\* every key is matched by exactly one fragment, the key fragments have
\* pairwise distinct y, and every value fragment lies in exactly one key's
\* band, right of that key's value threshold, and contains no key's first word
WellFormedTable ==
    /\ \A k \in 1..Len(keys) : Cardinality({i \in 1..Len(items) : Matches(i, k)}) = 1
    /\ Len(keyRows) = Len(keys)
    /\ \A r, q \in 1..Len(keyRows) : r # q => keyRows[r].y # keyRows[q].y
    /\ \A j \in 1..Len(items) : ~IsKeyItem(j) =>
          /\ Cardinality({k \in 1..Len(keys) : InBand(RowOf(k), j)}) = 1
          /\ \A k \in 1..Len(keys) :
                /\ InBand(RowOf(k), j) => RightOfKey(RowOf(k), j)
                /\ ~Includes(items[j].str, FirstWord(keys[k]))

\* fragment i may stand before fragment j in reading order: left of it (or
\* level) on the same line, above it otherwise
MayPrecede(i, j) ==
    IF SameLine(items[i], items[j]) THEN items[i].x <= items[j].x
    ELSE items[i].y > items[j].y

\* the ways to put the fragments of S one after another in reading order
RECURSIVE ReadingOrders(_)
ReadingOrders(S) ==
    IF S = {} THEN {<<>>}
    ELSE UNION {{<<i>> \o rest : rest \in ReadingOrders(S \ {i})} :
                    i \in {h \in S : \A j \in S \ {h} : MayPrecede(h, j)}}

\* the texts of the fragments of S in reading order (upper lines first, left
\* to right within a line), joined by single spaces
ReadingTexts(S) ==
    {Join([a \in 1..Len(seq) |-> items[seq[a]].str], <<" ">>) : seq \in ReadingOrders(S)}

KeysWithText ==
    {k \in 1..Len(keys) : \E t \in ReadingTexts(ValueItemsOf(k)) : Trim(t) # <<>>}

Returned == pc \in {"pp_done", "tp_done", "table_done", "kw_done", "thrown"}

\* the zone name contains "general", "overview" or the two Hangul syllables,
\* in whatever case
NamesOverview ==
    \E w \in {<<"g", "e", "n", "e", "r", "a", "l">>,
              <<"o", "v", "e", "r", "v", "i", "e", "w">>,
              <<"U+C815", "U+BCF4">>} :
        \E i \in 0..(Len(templateName) - Len(w)) :
            \A j \in 1..Len(w) : LowerOf(templateName[i + j]) = w[j]

\* the texts of the fragments that are not blank, joined by single spaces
NonBlankTexts ==
    Join(SelectSeq([i \in 1..Len(items) |-> items[i].str],
                   LAMBDA str : \E c \in 1..Len(str) : str[c] \notin WS), <<" ">>)

\* C15: a dispatcher treats the zone as an overview section exactly when its
\* name contains one of the three identifiers, ignoring case. Then the output
\* is what the key/value parser returns for the input and the dispatcher's
\* fixed catalog; otherwise it is the space-joined non-blank fragment texts
\* (over fragments) or the pre-cleaned text (over raw text), with no
\* key/value line.
C15_Dispatch ==
    (Returned /\ ~absent) =>
        /\ entry = "postProcessText(items)" =>
              IF NamesOverview
              THEN /\ output \in ParseTableByRowsOutcomes(items, TableCatalog)
                   /\ items # <<>> => pc = "table_done" /\ keys = TableCatalog
              ELSE pc = "pp_done" /\ output = NonBlankTexts /\ lines = <<>>
        /\ entry = "postProcessText(rawText)" =>
              IF NamesOverview
              THEN /\ output = ParseWithKeywordsOutput(rawText, KeywordCatalog)
                   /\ pc = "kw_done" /\ keys = KeywordCatalog
              ELSE pc = "tp_done" /\ output = preCleanText(rawText) /\ lines = <<>>

\* an unrecognized zone whose fragments hold a catalog key, its value and a
\* blank fragment
C15_Witness ==
    /\ pc = "pp_done"
    /\ ~NamesOverview
    /\ \E i \in 1..Len(items) : items[i].str = <<"a">>
    /\ \E i \in 1..Len(items) : items[i].str = <<" ">>
    /\ output = <<"a", " ", "v">>

\* C18: a call with an empty fragment collection, or with the empty string,
\* returns the empty string, for each of the four functions and every zone
\* name.
C18_EmptyInEmptyOut ==
    (Returned /\ ~absent /\ items = <<>> /\ rawText = <<>>) =>
        pc # "thrown" /\ output = <<>>

\* the text dispatcher has passed the empty string of an overview zone
\* through the keyword-slice parser
C18_Witness ==
    /\ pc = "kw_done"
    /\ entry = "postProcessText(rawText)"
    /\ ~absent /\ rawText = <<>> /\ output = <<>>

\* C19: a call whose fragment collection or string is absent returns the
\* empty string and throws nothing, for each of the four functions.
C19_AbsentInEmptyOut ==
    (Returned /\ absent) => pc # "thrown" /\ output = <<>>

\* two returned calls were given the same arguments
SameArguments(c, d) ==
    /\ c.entry = d.entry /\ c.templateName = d.templateName
    /\ c.items = d.items /\ c.rawText = d.rawText

\* C16: two calls of the same function with the same arguments return the
\* same string (and neither throws), whatever calls ran before or between
\* them.
C16_Deterministic ==
    \A i, j \in 1..Len(calls) :
        SameArguments(calls[i], calls[j]) =>
            calls[i].output = calls[j].output /\ calls[i].thrown = calls[j].thrown

\* an overview zone parsed twice by the positional dispatcher, with a call
\* of the same dispatcher for another zone in between
C16_Witness ==
    /\ Len(calls) = 3
    /\ SameArguments(calls[1], calls[3])
    /\ calls[1].entry = "postProcessText(items)"
    /\ calls[2].entry = "postProcessText(items)"
    /\ calls[1].output = <<"a", ":", " ", "v">>
    /\ calls[2].output = <<"a", " ", "v">>

\* C17: no step of a call of the positional dispatcher or parser changes the
\* caller's fragment collection: the same fragments, in the same order, with
\* the same text and position.
C17_ItemsUnchanged == [][items' = items]_vars

\* a parse through the dispatcher that has sorted its rows into another
\* order than it located them in, and the values of a row into another order
\* than the fragments stand in
C17_Witness ==
    /\ pc = "table_done"
    /\ entry = "postProcessText(items)"
    /\ Len(keyRows) = 2
    /\ keyRows[1].key = keys[2]
    /\ \E i \in 1..2 : Len(rowVals[i]) = 2 /\ rowVals[i][1].src > rowVals[i][2].src

\* C20: a fragment located as the key of one row is never among the
\* fragments the value of another row is made of, two keys on one line at
\* different x included.
C20_KeyNotInOtherRow ==
    pc = "extracted" =>
        \A i, j \in 1..Len(keyRows) :
            i # j => \A n \in 1..Len(rowVals[i]) : rowVals[i][n].src # keyLocs[j].item

\* C21: in the extraction worker an OCR run starts only when every pass-1
\* text extraction of the request has completed; at most one OCR is in
\* flight; the zone in flight is the next of the queue after the zones whose
\* OCR has finished or failed, which are a prefix of the queue in its order.
C21_SequentialOcr ==
    /\ Cardinality(inFlight) <= 1
    /\ (inFlight # {} \/ ocrDone # <<>>) =>
          /\ Len(pass1) = Len(request.templates)
          /\ \A t \in 1..Len(pass1) : pass1[t] # "pending"
    /\ Len(ocrDone) <= Len(ocrQueue)
    /\ ocrDone = SubSeq(ocrQueue, 1, Len(ocrDone))
    /\ \A t \in inFlight :
          Len(ocrDone) < Len(ocrQueue) /\ t = ocrQueue[Len(ocrDone) + 1]

\* the OCR of the second zone of the queue runs after the first has failed,
\* in a request with a zone that pass 1 settled by its text
C21_Witness ==
    /\ pc = "w_ocr"
    /\ inFlight # {}
    /\ Len(ocrDone) = 1
    /\ ~request.templates[ocrDone[1]].ocr.ok
    /\ Len(request.templates) = 3
    /\ Len(ocrQueue) = 2

NamesOf(ts) == {ts[t].name : t \in 1..Len(ts)}

DistinctNames(ts) == \A a, b \in 1..Len(ts) : a # b => ts[a].name # ts[b].name

SuccessPosted == posted # <<>> /\ posted[Len(posted)].type = "success"

\* the indexes at which t stands in the OCR queue
QueuePlaces(t) == {k \in 1..Len(ocrQueue) : ocrQueue[k] = t}

\* C22: with pairwise-distinct template names, a template whose text-layer
\* text has at least 5 characters after trimming has that text as its result
\* and is never in the OCR queue, every other template is in the queue
\* exactly once, and the results of a 'success' message have an entry for
\* every template of the request and for no other name.
C22_OnePathEach ==
    (SuccessPosted /\ DistinctNames(request.templates)) =>
        LET ts == request.templates
            sent == posted[Len(posted)].data
        IN  /\ \A t \in 1..Len(ts) :
                  IF Len(Trim(ts[t].text.value)) >= 5
                  THEN /\ QueuePlaces(t) = {}
                       /\ ts[t].name \in DOMAIN sent
                       /\ sent[ts[t].name] = Trim(ts[t].text.value)
                  ELSE Cardinality(QueuePlaces(t)) = 1
            /\ DOMAIN sent = NamesOf(ts)

\* the step is the failure of the OCR of the zone in flight
OcrFails ==
    /\ pc = "w_ocr" /\ pc' = "w_pass2"
    /\ ~request.templates[ocrQueue[ocrIndex]].ocr.ok

\* C23: a failure of OCR on one zone is isolated: the zone's result becomes
\* 'OCR Error', the results already stored are unchanged, every later zone
\* of the queue is still processed and the worker ends with 'success'.
C23_OcrFailureIsolated ==
    /\ [][OcrFails =>
            LET name == request.templates[ocrQueue[ocrIndex]].name IN
            /\ name \in DOMAIN workerResults'
            /\ workerResults'[name] = OCR_ERROR
            /\ \A n \in DOMAIN workerResults :
                  n \in DOMAIN workerResults' /\ workerResults'[n] = workerResults[n]]_vars
    /\ [](pc = "w_done" /\ ocrDone # <<>> => ocrDone = ocrQueue /\ SuccessPosted)

Terminal(m) == m.type \in {"success", "error"}

TerminalPlaces == {k \in 1..Len(posted) : Terminal(posted[k])}

ProgressPlaces == {k \in 1..Len(posted) : posted[k].type = "progress"}

\* C24: the worker posts at most one terminal message, 'success' or
\* 'error', and exactly one by the time the handler has returned; no
\* 'progress' message follows it; a request with a missing file or missing
\* templates gets 'error' and no 'progress'; a rejected pass-1 text
\* extraction gets 'error' and no 'success', as does a failure to load.
C24_OneTerminalMessage ==
    /\ Cardinality(TerminalPlaces) <= 1
    /\ \A k \in TerminalPlaces : k = Len(posted) /\ pc = "w_done"
    /\ pc = "w_done" => Cardinality(TerminalPlaces) = 1
    /\ (pc = "w_done" /\ (~request.file \/ ~request.hasTemplates)) =>
          posted = <<ErrorMessage(<<"Missing file or templates.">>)>>
    /\ (pc = "w_done" /\ PromiseAllRejected(pass1)) =>
          posted[Len(posted)].type = "error"
    /\ (pc = "w_done" /\ request.file /\ request.hasTemplates /\ pass1 = <<>>
          /\ request.templates # <<>>) =>
          posted[Len(posted)].type = "error"

\* a pass-1 extraction was rejected while another was still pending, the
\* handler has answered and the other has settled since
C24_Witness ==
    /\ pc = "w_done"
    /\ Len(pass1) = 3
    /\ PromiseAllRejected(pass1)
    /\ \A t \in 1..3 : pass1[t] # "pending"
    /\ ocrQueue # <<>>
    /\ posted[Len(posted)].type = "error"
    /\ Cardinality(ProgressPlaces) = 2

\* the template of the request that bears the name n
Bearer(n) == CHOOSE t \in 1..Len(request.templates) : request.templates[t].name = n

\* the result of a zone as its own extraction functions determine it
ResultOf(tpl) ==
    IF Len(Trim(tpl.text.value)) >= 5 THEN Trim(tpl.text.value)
    ELSE IF tpl.ocr.ok THEN tpl.ocr.value ELSE OCR_ERROR

\* C27: with pairwise-distinct template names and per-zone deterministic
\* extraction, the name-to-text mapping of the 'success' message is a
\* function of the request alone, whatever the order in which the pass-1
\* text extractions completed; the OCR queue holds the same zones in every
\* order, each once.
C27_OrderIndependent ==
    (SuccessPosted /\ DistinctNames(request.templates)) =>
        LET ts == request.templates
            sent == posted[Len(posted)].data
        IN  /\ DOMAIN sent = NamesOf(ts) \ {"__proto__"}
            /\ \A n \in DOMAIN sent : sent[n] = ResultOf(ts[Bearer(n)])
            /\ Elements(ocrQueue) = {t \in 1..Len(ts) : Len(Trim(ts[t].text.value)) < 5}
            /\ Len(ocrQueue) = Cardinality(Elements(ocrQueue))

\* 'success' after the text extractions completed in another order than the
\* templates stand in: the OCR queue is not ascending
C27_Witness ==
    /\ SuccessPosted
    /\ DistinctNames(request.templates)
    /\ Len(request.templates) = 3
    /\ Len(ocrQueue) >= 2
    /\ ocrQueue[1] > ocrQueue[2]

\* the workers on which terminate() has not been called
Live == {w \in 1..Len(workers) : ~workers[w].terminated}

\* the step runs a handler of a Worker, which invokes one callback
Handled(kinds) ==
    /\ Len(callbacks') = Len(callbacks) + 1
    /\ callbacks'[Len(callbacks')].kind \in kinds

\* C25: at every moment at most one worker created by runExtractionInWorker
\* is un-terminated, and it is the one the module-level reference holds; a
\* call terminates the existing worker and the reference holds the new one;
\* handling 'success', 'error' or an error event leaves the worker of the
\* event terminated and the reference null; handling 'progress' changes
\* neither the reference nor any worker's termination.
C25_OneLiveWorker ==
    /\ [](Cardinality(Live) <= 1 /\ \A w \in Live : w = worker)
    /\ [][Len(workers') > Len(workers) =>
            /\ \A w \in 1..Len(workers) : workers'[w].terminated
            /\ worker' = Len(workers')
            /\ ~workers'[worker'].terminated]_vars
    /\ [][Handled({"onSuccess", "onError"}) =>
            /\ worker' = 0
            /\ workers'[callbacks'[Len(callbacks')].run].terminated]_vars
    /\ [][Handled({"onProgress"}) =>
            /\ worker' = worker
            /\ \A w \in 1..Len(workers) :
                  workers'[w].terminated = workers[w].terminated]_vars

\* a second call has superseded the first worker after its first 'progress';
\* the second worker has reported progress and success and is terminated
C25_Witness ==
    /\ callbacks = <<Callback(1, "onProgress"), Callback(2, "onProgress"),
                     Callback(2, "onSuccess")>>
    /\ Len(workers) = 2
    /\ workers[1].terminated /\ workers[2].terminated
    /\ worker = 0

\* C26: a terminal message or error event of a worker that a later call has
\* superseded, handled while the later call's worker is running, leaves the
\* reference on that worker and the worker un-terminated.
C26_StaleEventHarmless ==
    [][(Handled({"onSuccess", "onError"})
          /\ worker # 0 /\ callbacks'[Len(callbacks')].run # worker) =>
            /\ worker' = worker
            /\ ~workers'[worker].terminated]_vars

\* the templates of the store that bear the id
Bearing(id) == {i \in 1..Len(templates) : templates[i].id = id}

\* C28: after any sequence of store actions, setSelectedTemplateId being
\* called only with null or the id of a template in the list,
\* selectedTemplateId is null or the id of a template in templates;
\* removing the selected template deselects, and so does replacing the
\* list; updateTemplateName and updateTemplateBbox change the one field of
\* the templates that bear the id and nothing else.
C28_StoreInvariant ==
    /\ [](selectedTemplateId = Null \/ Bearing(selectedTemplateId) # {})
    /\ [][(lastOp'.op = "removeTemplate" /\ lastOp'.id = selectedTemplateId) =>
            selectedTemplateId' = Null]_vars
    /\ [][lastOp'.op = "setTemplates" => selectedTemplateId' = Null]_vars
    /\ [][lastOp'.op \in {"updateTemplateName", "updateTemplateBbox"} =>
            /\ selectedTemplateId' = selectedTemplateId
            /\ Len(templates') = Len(templates)
            /\ \A i \in 1..Len(templates) :
                  /\ templates'[i].id = templates[i].id
                  /\ templates'[i].name =
                        IF lastOp'.op = "updateTemplateName" /\ i \in Bearing(lastOp'.id)
                        THEN lastOp'.arg ELSE templates[i].name
                  /\ templates'[i].bbox =
                        IF lastOp'.op = "updateTemplateBbox" /\ i \in Bearing(lastOp'.id)
                        THEN lastOp'.arg ELSE templates[i].bbox]_vars

\* the selected template has just been removed from a list of two, which
\* deselected it and left the other template
C28_Witness ==
    /\ lastOp.op = "removeTemplate"
    /\ selectedTemplateId = Null
    /\ Len(templates) = 1
    /\ templates[1].id # lastOp.id

\* C29: in PdfViewer every mouse-up or mouse-leave ends the drawing: after
\* it is handled isDrawing is false and currentRect is null, whatever
\* mouse-down and mouse-moves came before; and a template is added only for
\* a rectangle at least 5 units wide and high, under a non-blank name.
C29_MouseUpEndsDrawing ==
    /\ [][lastOp'.op \in {"mouseup", "mouseleave"} =>
            ~drawingState'.isDrawing /\ drawingState'.currentRect = <<>>]_vars
    /\ [](\A i \in 1..Len(templates) :
            /\ templates[i].bbox.x2 - templates[i].bbox.x1 >= 5
            /\ templates[i].bbox.y2 - templates[i].bbox.y1 >= 5
            /\ templates[i].name # <<>> /\ Trim(templates[i].name) = templates[i].name)
============================================================================
